---- MODULE Spec2Model ----
(***************************************************************************)
(* Forecast accuracy reports: the reconciliation pipeline of               *)
(* build_forecast_accuracy_report.py (build_raw_data and the dashboards),  *)
(* the monthly run of build_forecast_accuracy_report_db.py and the trend   *)
(* run of build_forecast_accuracy_trend_report_db.py.                      *)
(*                                                                         *)
(* Text cells are sequences of one-character strings, so that strip,       *)
(* upper, lower and split are computed as pandas computes them.  A missing *)
(* text cell is the one-element sequence MissingNaN (float nan, what       *)
(* read_excel gives) or MissingNone (None, what read_sql gives).  Numeric  *)
(* cells are records [t, v]: a number, NaN, or a non-numeric text.         *)
(***************************************************************************)
EXTENDS Integers, Sequences, FiniteSets, TLC

----------------------------------------------------------------------------
(* Bounds of the model *)

\* rows in the four source tables of one run, all tables together
MaxRows == 4

\* rows behind the source of one monthly run, all tables together
MaxDqRows == 5

\* the longest rolling window of a trend run, in months
MaxWindowMonths == 2

\* rows in the four database tables of one trend run, all tables together
MaxTrendRows == 7

----------------------------------------------------------------------------
(* Text literals *)

S_AMERICAS == <<"A","M","E","R","I","C","A","S">>
S_Americas == <<"A","m","e","r","i","c","a","s">>
S_EMEA == <<"E","M","E","A">>
S_D100 == <<"D","1","0","0">>
S_d100_pad == <<" ","d","1","0","0">>
S_D200 == <<"D","2","0","0">>
S_Division == <<"D","i","v","i","s","i","o","n">>
S_TOTAL_CASEWORK == <<"T","O","T","A","L"," ","C","A","S","E","W","O","R","K">>
S_total_casework == <<"T","o","t","a","l"," ","C","a","s","e","w","o","r","k">>
S_LOC1020 == <<"L","O","C","1","0","2","0">>
S_LOC1080 == <<"L","O","C","1","0","8","0">>
S_loc1020_pad == <<"l","o","c","1","0","2","0"," ">>
S_LOC1 == <<"L","O","C","1">>
S_ARTISAN_CASEWORK == <<"A","R","T","I","S","A","N"," ","C","A","S","E","W","O","R","K">>
S_Artisan_Casework == <<"A","r","t","i","s","a","n"," ","C","a","s","e","w","o","r","k">>
S_SYNTHESIS_CASEWORK == <<"S","Y","N","T","H","E","S","I","S"," ","C","A","S","E","W","O","R","K">>
S_WIDGET_A == <<"W","I","D","G","E","T","-","A">>
S_widget_a_pad == <<"w","i","d","g","e","t","-","a"," ">>
S_WIDGET_B == <<"W","I","D","G","E","T","-","B">>
S_GADGET == <<"G","A","D","G","E","T">>
S_FAM1 == <<"F","A","M","1">>
S_FAM2 == <<"F","A","M","2">>
S_fam1 == <<"f","a","m","1">>
S_SKUS_AB == <<"W","I","D","G","E","T","-","A"," ","|"," ","W","I","D","G","E","T","-","B">>
S_Quantity == <<"Q","u","a","n","t","i","t","y">>
S_quantity == <<"q","u","a","n","t","i","t","y">>
S_dollars == <<"d","o","l","l","a","r","s">>
S_Dollars_pad == <<"D","o","l","l","a","r","s"," ">>
S_BLEND == <<"B","L","E","N","D">>
S_blend_pad == <<"b","l","e","n","d"," ">>
S_ETS == <<"E","T","S">>
S_ALL == <<"A","L","L">>
S_Total == <<"T","o","t","a","l">>
S_Casegoods == <<"C","a","s","e","g","o","o","d","s">>
S_Medical == <<"M","e","d","i","c","a","l">>
S_Ann == <<"A","n","n">>
S_Bob == <<"B","o","b">>
S_Empty == <<>>

----------------------------------------------------------------------------
(* Cells *)

MissingNaN == <<"<nan>">>
MissingNone == <<"<None>">>

Num(v) == [t |-> "num", v |-> v]
NaN == [t |-> "nan", v |-> 0]
TextCell == [t |-> "str", v |-> 0]

NaT == [y |-> 0, m |-> 0, d |-> 0]
Timestamp(y, m, d) == [y |-> y, m |-> m, d |-> d]

\* Series.dt.to_period("M") == month_start.to_period("M"); NaT equals nothing.
SamePeriod(ts, month_start) ==
    /\ ts # NaT
    /\ ts.y = month_start.y
    /\ ts.m = month_start.m

\* Series.astype(str) on an object column.
astype_str(s) ==
    IF s = MissingNaN THEN <<"n","a","n">>
    ELSE IF s = MissingNone THEN <<"N","o","n","e">>
    ELSE s

LowerLetters == <<"a","b","c","d","e","f","g","h","i","j","k","l","m",
                  "n","o","p","q","r","s","t","u","v","w","x","y","z">>
UpperLetters == <<"A","B","C","D","E","F","G","H","I","J","K","L","M",
                  "N","O","P","Q","R","S","T","U","V","W","X","Y","Z">>

UpperOf ==
    [c \in {LowerLetters[i] : i \in 1..Len(LowerLetters)} |->
        UpperLetters[CHOOSE i \in 1..Len(LowerLetters) : LowerLetters[i] = c]]

LowerOf ==
    [c \in {UpperLetters[i] : i \in 1..Len(UpperLetters)} |->
        LowerLetters[CHOOSE i \in 1..Len(UpperLetters) : UpperLetters[i] = c]]

upper_char(c) == IF c \in DOMAIN UpperOf THEN UpperOf[c] ELSE c

lower_char(c) == IF c \in DOMAIN LowerOf THEN LowerOf[c] ELSE c

str_upper(s) == [i \in 1..Len(s) |-> upper_char(s[i])]
str_lower(s) == [i \in 1..Len(s) |-> lower_char(s[i])]

RECURSIVE str_lstrip(_)
str_lstrip(s) ==
    IF Len(s) > 0 /\ s[1] = " " THEN str_lstrip(Tail(s)) ELSE s

RECURSIVE str_rstrip(_)
str_rstrip(s) ==
    IF Len(s) > 0 /\ s[Len(s)] = " " THEN str_rstrip(SubSeq(s, 1, Len(s) - 1)) ELSE s

str_strip(s) == str_rstrip(str_lstrip(s))

\* str.split("|"): the tokens between the separators, empty tokens kept.
RECURSIVE str_split(_, _)
str_split(s, sep) ==
    IF \E i \in 1..Len(s) : s[i] = sep
    THEN LET i == CHOOSE i \in 1..Len(s) :
                      s[i] = sep /\ \A j \in 1..(i - 1) : s[j] # sep
         IN <<SubSeq(s, 1, i - 1)>> \o str_split(SubSeq(s, i + 1, Len(s)), sep)
    ELSE <<s>>

normalize_key(s) == str_upper(str_strip(astype_str(s)))

\* pd.to_numeric(errors="coerce")
to_numeric(c) == IF c.t = "num" THEN c ELSE NaN

\* mutant: missing values left missing
fillna0_Kept(c) == c

fillna0(c) == IF c.t = "nan" THEN Num(0) ELSE c

\* the value a cell adds to a pandas sum (skipna)
SumValue(c) == IF c.t = "num" THEN c.v ELSE 0

RECURSIVE SeqSum(_)
SeqSum(cells) ==
    IF cells = <<>> THEN 0 ELSE SumValue(Head(cells)) + SeqSum(Tail(cells))

RECURSIVE SumField(_, _)
SumField(rows, f) ==
    IF rows = {} THEN 0
    ELSE LET r == CHOOSE r \in rows : TRUE
         IN SumValue(r[f]) + SumField(rows \ {r}, f)

Abs(x) == IF x < 0 THEN -x ELSE x

\* (a - b).abs() on two columns
AbsDiff(a, b) ==
    IF a.t = "num" /\ b.t = "num" THEN Num(Abs(a.v - b.v)) ELSE NaN

Range(s) == {s[i] : i \in 1..Len(s)}

RECURSIVE Flatten(_)
Flatten(ss) == IF ss = <<>> THEN <<>> ELSE Head(ss) \o Flatten(Tail(ss))

----------------------------------------------------------------------------
(* build_forecast_accuracy_report.py: load_product_catalog *)

\* Series.replace({"Division": "D200"}): whole-cell match only
replace_Division(s) == IF s = S_Division THEN S_D200 ELSE s

load_product_catalog(sheet) ==
    [i \in 1..Len(sheet) |->
        [sheet[i] EXCEPT !.business_unit_code = replace_Division(@),
                         !.business_unit_name = replace_Division(@)]]

----------------------------------------------------------------------------
(* build_forecast_accuracy_report.py: build_raw_data *)

\* the month and geography filters on the marketing frame
FilterMarketing(mk, month_start) ==
    LET in_month == SelectSeq(mk, LAMBDA r : SamePeriod(r.Date, month_start))
    IN SelectSeq(in_month,
                 LAMBDA r : str_upper(astype_str(r.Geography)) = S_AMERICAS)

\* mutant: the tokens left as they were split, blanks at their ends kept
ExplodeRow_Unstripped(c) ==
    LET tokens == str_split(astype_str(c.sku_list), "|")
    IN [i \in 1..Len(tokens) |-> [c EXCEPT !.sku_list = tokens[i]]]

\* one catalog row per token of its sku_list (split on "|", explode, strip)
ExplodeRow(c) ==
    LET tokens == str_split(astype_str(c.sku_list), "|")
    IN [i \in 1..Len(tokens) |->
           [c EXCEPT !.sku_list = str_strip(astype_str(tokens[i]))]]

ExpandCatalog(cat) == Flatten([i \in 1..Len(cat) |-> ExplodeRow(cat[i])])

MarketingKeys(mk) ==
    [i \in 1..Len(mk) |->
        mk[i] @@ [_product_key |-> normalize_key(mk[i].Product),
                  _bu_key |-> normalize_key(mk[i].BU)]]

CatalogKeys(catalog_map) ==
    [i \in 1..Len(catalog_map) |->
        catalog_map[i] @@
            [_product_key |-> normalize_key(catalog_map[i].sku_list),
             _bu_key |-> normalize_key(catalog_map[i].business_unit_code)]]

KeyEq(a, b) == a._product_key = b._product_key /\ a._bu_key = b._bu_key

Pairs(n, m) ==
    [k \in 1..(n * m) |-> <<((k - 1) \div m) + 1, ((k - 1) % m) + 1>>]

\* mutant: how="left", the catalog columns of an unmatched row missing
InnerMerge_Left(left, right) ==
    Flatten([i \in 1..Len(left) |->
        LET hits == SelectSeq(right, LAMBDA c : KeyEq(left[i], c))
        IN IF hits = <<>>
           THEN <<left[i] @@ [group_key |-> MissingNaN,
                              business_unit_code |-> MissingNaN,
                              business_unit_name |-> MissingNaN,
                              sku_list |-> MissingNaN,
                              product_family |-> MissingNaN,
                              marketing_manager |-> MissingNaN,
                              salesforce_feature_mode |-> MissingNaN]>>
           ELSE [j \in 1..Len(hits) |-> left[i] @@ hits[j]]])

\* DataFrame.merge(on=["_product_key", "_bu_key"], how="inner")
InnerMerge(left, right) ==
    LET ps == SelectSeq(Pairs(Len(left), Len(right)),
                        LAMBDA p : KeyEq(left[p[1]], right[p[2]]))
    IN [k \in 1..Len(ps) |-> left[ps[k][1]] @@ right[ps[k][2]]]

\* mutant: the two locations exchanged
casework_location_map_Exchanged(loc) ==
    IF loc = S_LOC1020 THEN S_SYNTHESIS_CASEWORK
    ELSE IF loc = S_LOC1080 THEN S_ARTISAN_CASEWORK
    ELSE MissingNaN

casework_location_map(loc) ==
    IF loc = S_LOC1020 THEN S_ARTISAN_CASEWORK
    ELSE IF loc = S_LOC1080 THEN S_SYNTHESIS_CASEWORK
    ELSE MissingNaN

casework_mask(r) ==
    /\ r._bu_key = S_D200
    /\ r._product_key = S_TOTAL_CASEWORK
    /\ normalize_key(r.Location) \in {S_LOC1020, S_LOC1080}

\* the casework split for D200 based on Location
CaseworkSplit(merged) ==
    IF \E i \in 1..Len(merged) : casework_mask(merged[i])
    THEN SelectSeq(merged,
            LAMBDA r : \/ ~casework_mask(r)
                       \/ normalize_key(r.group_key)
                            = casework_location_map(normalize_key(r.Location)))
    ELSE merged

\* marketing_df.merge(catalog_map[keys], how="left", indicator=True)
LeftMergeIndicator(left, right) ==
    Flatten([i \in 1..Len(left) |->
        LET hits == SelectSeq(right, LAMBDA c : KeyEq(left[i], c))
        IN IF hits = <<>>
           THEN <<left[i] @@ [_merge |-> "left_only"]>>
           ELSE [j \in 1..Len(hits) |-> left[i] @@ [_merge |-> "both"]]])

\* mutant: the anti-join on the columns as written, not on the normalized keys
Skipped_AsWritten(mk, catalog_map) ==
    LET left_only == SelectSeq(mk, LAMBDA r :
                        ~\E j \in 1..Len(catalog_map) :
                            /\ catalog_map[j].sku_list = r.Product
                            /\ catalog_map[j].business_unit_code = r.BU)
    IN [i \in 1..Len(left_only) |->
           [BU |-> left_only[i].BU,
            Product |-> left_only[i].Product,
            Date |-> left_only[i].Date,
            Reason |-> "Not in product catalog master"]]

Skipped(mk, catalog_map) ==
    LET left_only == SelectSeq(LeftMergeIndicator(mk, catalog_map),
                               LAMBDA r : r._merge = "left_only")
    IN [i \in 1..Len(left_only) |->
           [BU |-> left_only[i].BU,
            Product |-> left_only[i].Product,
            Date |-> left_only[i].Date,
            Reason |-> "Not in product catalog master"]]

\* mutant: the feature mode taken as written in the catalog
Units_AsWritten(c) == astype_str(c.salesforce_feature_mode)

Units(c) == str_strip(str_lower(astype_str(c.salesforce_feature_mode)))

\* mutant: Forecast (Dollars) taken whatever the feature mode
MarketingFcast_DollarsOnly(merged) ==
    [i \in 1..Len(merged) |->
        merged[i] @@ [Units |-> Units(merged[i]),
                      Marketing_Fcast |->
                          fillna0(to_numeric(merged[i].Forecast_Dollars))]]

\* the Units and Marketing Fcast columns of the merged frame
MarketingFcast(merged) ==
    [i \in 1..Len(merged) |->
        LET u == Units(merged[i])
            picked == IF u = S_quantity
                      THEN merged[i].Forecast_Quantity
                      ELSE merged[i].Forecast_Dollars
        IN merged[i] @@ [Units |-> u,
                         Marketing_Fcast |-> fillna0(to_numeric(picked))]]

\* a null value of a grouping column comes out of groupby(dropna=False) as
\* NaN, whichever null it was
GroupNull(c) == IF c \in {MissingNaN, MissingNone} THEN MissingNaN ELSE c

GroupKey(r) ==
    [group_key |-> GroupNull(r.group_key),
     business_unit_code |-> GroupNull(r.business_unit_code),
     business_unit_name |-> GroupNull(r.business_unit_name),
     product_family |-> GroupNull(r.product_family),
     marketing_manager |-> GroupNull(r.marketing_manager),
     Units |-> r.Units]

\* merged.groupby([...6 columns...], dropna=False).agg(sum).reset_index()
MarketingAgg(merged) ==
    { g @@ [Marketing_Fcast |->
              Num(SeqSum([i \in 1..Len(merged) |->
                     IF GroupKey(merged[i]) = g
                     THEN merged[i].Marketing_Fcast ELSE NaN]))]
      : g \in {GroupKey(merged[i]) : i \in 1..Len(merged)} }

RollupKey(r) == [_product_key |-> r._product_key, _bu_key |-> r._bu_key]

\* frame.groupby(["_product_key", "_bu_key"], dropna=False)[col].sum()
RollupSum(frame, col) ==
    { k @@ [value |->
              Num(SeqSum([i \in 1..Len(frame) |->
                     IF RollupKey(frame[i]) = k THEN frame[i][col] ELSE NaN]))]
      : k \in {RollupKey(frame[i]) : i \in 1..Len(frame)} }

ActualsRollup(actuals_df, month_start) ==
    LET in_month == SelectSeq(actuals_df,
                              LAMBDA r : SamePeriod(r.Month, month_start))
        keyed == [i \in 1..Len(in_month) |->
                    in_month[i] @@
                      [_product_key |-> normalize_key(in_month[i].Product),
                       _bu_key |-> normalize_key(in_month[i].Division)]]
    IN RollupSum(keyed, "Actuals")

StatsKeyed(stats_df, month_start) ==
    LET in_month == SelectSeq(stats_df,
                       LAMBDA r : SamePeriod(r.forecast_month, month_start))
    IN [i \in 1..Len(in_month) |->
          [in_month[i] EXCEPT
              !.model_type = str_strip(str_upper(astype_str(@)))]
          @@ [_product_key |-> normalize_key(in_month[i].product_id),
              _bu_key |-> normalize_key(in_month[i].bu_id)]]

RollupValue(rollup, k) ==
    IF \E r \in rollup : RollupKey(r) = k
    THEN (CHOOSE r \in rollup : RollupKey(r) = k).value
    ELSE NaN

\* mutant: the two rollups added
Coalesce_Additive(blend, fallback) ==
    IF blend.t = "nan" /\ fallback.t = "nan" THEN NaN
    ELSE Num(SumValue(blend) + SumValue(fallback))

\* blend where it is not null, else the recommended-model fallback
Coalesce(blend, fallback) == IF blend.t # "nan" THEN blend ELSE fallback

StatsRollup(stats_df, month_start) ==
    LET keyed == StatsKeyed(stats_df, month_start)
        stats_blend == SelectSeq(keyed, LAMBDA r : r.model_type = S_BLEND)
        stats_fallback == SelectSeq(keyed, LAMBDA r : r.recommended_model = TRUE)
        rollup_blend == RollupSum(stats_blend, "forecast_value")
        rollup_fallback == RollupSum(stats_fallback, "forecast_value")
        keys == {RollupKey(r) : r \in rollup_blend \cup rollup_fallback}
    IN { k @@ [value |-> Coalesce(RollupValue(rollup_blend, k),
                                  RollupValue(rollup_fallback, k))]
         : k \in keys }

AggKey(a) ==
    [_product_key |-> normalize_key(a.group_key),
     _bu_key |-> normalize_key(a.business_unit_code)]

\* the two left merges onto the marketing rollup, the zero fill and the errors
FinalJoin(agg, actuals_rollup, stats_rollup) ==
    { LET stats == fillna0(to_numeric(RollupValue(stats_rollup, AggKey(a))))
          mkt == fillna0(to_numeric(a.Marketing_Fcast))
          act == fillna0(to_numeric(RollupValue(actuals_rollup, AggKey(a))))
      IN [Stats_Model_Fcast |-> stats,
          Marketing_Fcast |-> mkt,
          Actuals |-> act,
          Stats_Abs_Error |-> AbsDiff(act, stats),
          Marketing_Abs_Error |-> AbsDiff(act, mkt)]
         @@ AggKey(a) @@ a
      : a \in agg }

RawData(agg, month_start) ==
    { [Product |-> a.group_key,
       Division |-> a.business_unit_code,
       Month |-> month_start,
       sku |-> S_Empty,
       Prod_Fam |-> a.product_family,
       Units |-> a.Units,
       Actuals |-> a.Actuals,
       Stats_Model_Fcast |-> a.Stats_Model_Fcast,
       Marketing_Fcast |-> a.Marketing_Fcast,
       Stats_Abs_Error |-> a.Stats_Abs_Error,
       Marketing_Abs_Error |-> a.Marketing_Abs_Error,
       BU_Name |-> a.business_unit_name,
       Marketing_Manager |-> a.marketing_manager] : a \in agg }

MarketingDetail(merged) ==
    [i \in 1..Len(merged) |->
        [BU |-> merged[i].BU, Product |-> merged[i].Product,
         Date |-> merged[i].Date, group_key |-> merged[i].group_key,
         business_unit_code |-> merged[i].business_unit_code,
         business_unit_name |-> merged[i].business_unit_name,
         product_family |-> merged[i].product_family,
         marketing_manager |-> merged[i].marketing_manager,
         Units |-> merged[i].Units,
         Marketing_Fcast |-> merged[i].Marketing_Fcast]]

\* the six frames build_raw_data returns, and its local frame merged
build_raw_data(marketing, catalog, stats, actuals, month_start) ==
    LET mk == MarketingKeys(FilterMarketing(marketing, month_start))
        catalog_map == CatalogKeys(ExpandCatalog(catalog))
        merged == MarketingFcast(CaseworkSplit(InnerMerge(mk, catalog_map)))
        actuals_rollup == ActualsRollup(actuals, month_start)
        stats_rollup == StatsRollup(stats, month_start)
        agg == FinalJoin(MarketingAgg(merged), actuals_rollup, stats_rollup)
    IN [raw |-> RawData(agg, month_start),
        skipped |-> Skipped(mk, catalog_map),
        merged |-> merged,
        marketing_detail |-> MarketingDetail(merged),
        stats_rollup |-> stats_rollup,
        agg |-> agg,
        actuals_rollup |-> actuals_rollup]

----------------------------------------------------------------------------
(* build_forecast_accuracy_report.py: safe_ratio and the dashboards *)

None == [t |-> "None", n |-> 0, d |-> 1]

RECURSIVE GCD(_, _)
GCD(a, b) == IF b = 0 THEN a ELSE GCD(b, a % b)

\* numerator / denominator (denominator # 0), kept exact: the fraction in
\* lowest terms with a positive denominator, so that equal quotients are
\* equal values
Quotient(numerator, denominator) ==
    LET g == GCD(Abs(numerator), Abs(denominator))
        sign == IF denominator < 0 THEN -1 ELSE 1
    IN [t |-> "float",
        n |-> (sign * numerator) \div g,
        d |-> Abs(denominator) \div g]

\* mutant: the ratio taken the other way round
safe_ratio_Swapped(numerator, denominator) ==
    IF numerator = 0 THEN None ELSE Quotient(denominator, numerator)

safe_ratio(numerator, denominator) ==
    IF denominator = 0 THEN None ELSE Quotient(numerator, denominator)

UnitDf(raw, units) == {r \in raw : r.Units = units}

\* the four ratios every dashboard computes from a group of Raw Data rows
GroupMetrics(group) ==
    LET actuals_sum == SumField(group, "Actuals")
        stats_sum == SumField(group, "Stats_Model_Fcast")
        mkt_sum == SumField(group, "Marketing_Fcast")
        stats_abs == SumField(group, "Stats_Abs_Error")
        mkt_abs == SumField(group, "Marketing_Abs_Error")
    IN [stats_acc |-> safe_ratio(stats_sum, actuals_sum),
        mkt_acc |-> safe_ratio(mkt_sum, actuals_sum),
        stats_wape |-> safe_ratio(stats_abs, actuals_sum),
        mkt_wape |-> safe_ratio(mkt_abs, actuals_sum)]

AccRecord(key, m) ==
    key @@ [Metric |-> "Midmark Fcast Acc.",
            Stats_Model |-> m.stats_acc, Marketing |-> m.mkt_acc]

WapeRecord(key, m) ==
    key @@ [Metric |-> "WAPE",
            Stats_Model |-> m.stats_wape, Marketing |-> m.mkt_wape]

UnitsList == {S_quantity, S_dollars}

BuKey(r) == [BU_Code |-> r.Division, BU_Name |-> r.BU_Name]
ProdFamKey(r) ==
    [BU_Code |-> r.Division, BU_Name |-> r.BU_Name, Prod_Fam |-> r.Prod_Fam]
ManagerKey(r) ==
    [BU_Code |-> r.Division, BU_Name |-> r.BU_Name,
     Marketing_Manager |-> r.Marketing_Manager]
ProductKey(r) ==
    [BU_Code |-> r.Division, BU_Name |-> r.BU_Name, Product |-> r.Product,
     Marketing_Manager |-> r.Marketing_Manager]

build_totals_dashboard(raw) ==
    UNION { LET unit_df == UnitDf(raw, units)
                by_bu == UNION {
                    LET group == {r \in unit_df : BuKey(r) = k}
                        key == [Units |-> units, Scope |-> "BU"] @@ k
                    IN {AccRecord(key, GroupMetrics(group)),
                        WapeRecord(key, GroupMetrics(group))}
                    : k \in {BuKey(r) : r \in unit_df} }
                total == [Units |-> units, Scope |-> "Total",
                          BU_Code |-> S_ALL, BU_Name |-> S_Total]
            IN IF unit_df = {} THEN {}
               ELSE by_bu \cup {AccRecord(total, GroupMetrics(unit_df)),
                                WapeRecord(total, GroupMetrics(unit_df))}
            : units \in UnitsList }

build_prod_fam_dashboard(raw) ==
    UNION { LET unit_df == UnitDf(raw, units)
            IN { AccRecord([Units |-> units] @@ k,
                           GroupMetrics({r \in unit_df : ProdFamKey(r) = k}))
                 : k \in {ProdFamKey(r) : r \in unit_df} }
            : units \in UnitsList }

build_prod_fam_wape_dashboard(raw) ==
    UNION { LET unit_df == UnitDf(raw, units)
            IN { WapeRecord([Units |-> units] @@ k,
                            GroupMetrics({r \in unit_df : ProdFamKey(r) = k}))
                 : k \in {ProdFamKey(r) : r \in unit_df} }
            : units \in UnitsList }

build_marketing_manager_dashboard(raw) ==
    UNION { LET unit_df == UnitDf(raw, units)
            IN UNION {
                 LET m == GroupMetrics({r \in unit_df : ManagerKey(r) = k})
                 IN {AccRecord([Units |-> units] @@ k, m),
                     WapeRecord([Units |-> units] @@ k, m)}
                 : k \in {ManagerKey(r) : r \in unit_df} }
            : units \in UnitsList }

build_product_dashboard(raw) ==
    UNION { LET unit_df == UnitDf(raw, units)
            IN { AccRecord([Units |-> units] @@ k,
                           GroupMetrics({r \in unit_df : ProductKey(r) = k}))
                 : k \in {ProductKey(r) : r \in unit_df} }
            : units \in UnitsList }

\* the five dashboards write_report builds from Raw Data
build_dashboards(raw) ==
    [totals |-> build_totals_dashboard(raw),
     prod_fam |-> build_prod_fam_dashboard(raw),
     prod_fam_wape |-> build_prod_fam_wape_dashboard(raw),
     marketing_mgr |-> build_marketing_manager_dashboard(raw),
     product |-> build_product_dashboard(raw)]

----------------------------------------------------------------------------
(* build_forecast_accuracy_report.py: winner_label. The ratios are Python
   floats (IEEE 754 doubles): a double is kept as its sign, its integer part
   and the bits of its fraction, so that the rounding of the division and of
   abs(x - 1) is that of the float arithmetic *)

\* the bits of a double's significand
MantissaBits == 53

\* the fraction bits kept: enough for every double of magnitude 2^-12 or more
FracBits == MantissaBits + 12

Zeros(k) == [i \in 1..k |-> 0]

RECURSIVE BitLength(_)
BitLength(n) == IF n = 0 THEN 0 ELSE 1 + BitLength(n \div 2)

\* the first k bits of the binary fraction r / d (0 <= r < d)
RECURSIVE FracDigits(_, _, _)
FracDigits(r, d, k) ==
    IF k = 0 THEN <<>>
    ELSE IF 2 * r >= d THEN <<1>> \o FracDigits(2 * r - d, d, k - 1)
    ELSE <<0>> \o FracDigits(2 * r, d, k - 1)

\* what is left of r / d after its first k bits
RECURSIVE FracRem(_, _, _)
FracRem(r, d, k) ==
    IF k = 0 THEN r
    ELSE IF 2 * r >= d THEN FracRem(2 * r - d, d, k - 1)
    ELSE FracRem(2 * r, d, k - 1)

\* bits + 1 in the last place, and the carry out of the first
Increment(bits) ==
    LET zeros == {i \in 1..Len(bits) : bits[i] = 0}
        last == CHOOSE i \in zeros : \A j \in zeros : j <= i
    IN IF zeros = {} THEN [bits |-> Zeros(Len(bits)), carry |-> 1]
       ELSE [bits |-> [i \in 1..Len(bits) |->
                         IF i < last THEN bits[i] ELSE IF i = last THEN 1 ELSE 0],
             carry |-> 0]

LeadingZeros(bits) ==
    IF \A i \in 1..Len(bits) : bits[i] = 0 THEN Len(bits)
    ELSE (CHOOSE i \in 1..Len(bits) :
             bits[i] = 1 /\ \A j \in 1..(i - 1) : bits[j] = 0) - 1

\* round to nearest, ties to even, to MantissaBits significant bits; sticky
\* tells that the exact value has more bits beyond frac
RoundToDouble(int, frac, sticky) ==
    LET keep == IF int > 0 THEN MantissaBits - BitLength(int)
                ELSE LeadingZeros(frac) + MantissaBits
    IN IF keep >= Len(frac) THEN [int |-> int, frac |-> frac]
       ELSE LET kept == SubSeq(frac, 1, keep)
                guard == frac[keep + 1]
                rest == sticky \/ \E i \in (keep + 2)..Len(frac) : frac[i] = 1
                lsb == IF keep = 0 THEN int % 2 ELSE frac[keep]
                up == guard = 1 /\ (rest \/ lsb = 1)
                inc == Increment(kept)
            IN IF up
               THEN [int |-> int + inc.carry,
                     frac |-> inc.bits \o Zeros(Len(frac) - keep)]
               ELSE [int |-> int, frac |-> kept \o Zeros(Len(frac) - keep)]

\* float(numerator) / float(denominator) for the ratio x: the double nearest
\* to the quotient
FloatOf(x) ==
    LET n == Abs(x.n)
        mag == RoundToDouble(n \div x.d, FracDigits(n % x.d, x.d, FracBits),
                             FracRem(n % x.d, x.d, FracBits) # 0)
    IN [neg |-> x.n < 0, int |-> mag.int, frac |-> mag.frac]

\* abs(x - 1) on doubles
DistanceToOne(x) ==
    LET f == FloatOf(x)
    IN IF f.neg THEN RoundToDouble(f.int + 1, f.frac, FALSE)
       ELSE IF f.int >= 1 THEN RoundToDouble(f.int - 1, f.frac, FALSE)
       ELSE IF f.frac = Zeros(FracBits) THEN [int |-> 1, frac |-> f.frac]
       ELSE RoundToDouble(0, Increment([i \in 1..FracBits |-> 1 - f.frac[i]]).bits,
                          FALSE)

\* a < b on two doubles that are not negative
RECURSIVE BitsLess(_, _)
BitsLess(a, b) ==
    IF a = <<>> THEN FALSE
    ELSE IF a[1] = b[1] THEN BitsLess(Tail(a), Tail(b))
    ELSE a[1] < b[1]

FloatLess(a, b) == a.int < b.int \/ (a.int = b.int /\ BitsLess(a.frac, b.frac))

\* a < b on two ratios; the doubles of two different ratios of small sums are
\* different and in the order of the ratios
Less(a, b) == a.n * b.d < b.n * a.d

\* a float that is NaN, and a value float() does not convert
NaNFloat == [t |-> "nan", n |-> 0, d |-> 1]
NotANumber == [t |-> "str", n |-> 0, d |-> 1]

\* the comparison of two floats, after the conversions
CompareFloats(stats_val, mkt_val, mode) ==
    IF stats_val = mkt_val THEN "Tie"
    ELSE IF mode = "higher"
         THEN (IF Less(mkt_val, stats_val) THEN "Stats Model" ELSE "Marketing")
    ELSE IF mode = "lower"
         THEN (IF Less(stats_val, mkt_val) THEN "Stats Model" ELSE "Marketing")
    ELSE LET stats_diff == DistanceToOne(stats_val)
             mkt_diff == DistanceToOne(mkt_val)
         IN IF stats_diff = mkt_diff THEN "Tie"
            ELSE IF FloatLess(stats_diff, mkt_diff) THEN "Stats Model"
            ELSE "Marketing"

\* mutant: without the pd.isna test a NaN reaches the comparisons, which are
\* all false on it
winner_label_NaNCompared(stats_val, mkt_val, mode) ==
    IF stats_val = None \/ mkt_val = None THEN ""
    ELSE IF stats_val = NotANumber \/ mkt_val = NotANumber THEN ""
    ELSE IF stats_val = NaNFloat \/ mkt_val = NaNFloat THEN "Marketing"
    ELSE CompareFloats(stats_val, mkt_val, mode)

\* highlight_winner: the cell it fills, named by its column, or none. It has
\* no test for NaN: float() accepts a NaN, and every comparison with it is
\* false
highlight_winner(stats_val, mkt_val, mode) ==
    IF stats_val = None \/ mkt_val = None THEN ""
    ELSE IF stats_val = NotANumber \/ mkt_val = NotANumber THEN ""
    ELSE IF stats_val = NaNFloat \/ mkt_val = NaNFloat THEN "Marketing"
    ELSE IF CompareFloats(stats_val, mkt_val, mode) = "Tie" THEN ""
    ELSE CompareFloats(stats_val, mkt_val, mode)

winner_label(stats_val, mkt_val, mode) ==
    IF stats_val = None \/ mkt_val = None THEN ""
    ELSE IF stats_val = NaNFloat \/ mkt_val = NaNFloat THEN ""
    ELSE IF stats_val.t # "float" \/ mkt_val.t # "float" THEN ""
    ELSE CompareFloats(stats_val, mkt_val, mode)

----------------------------------------------------------------------------
(* build_forecast_accuracy_report_db.py *)

IsNullText(c) == c = MissingNaN \/ c = MissingNone

MonthNames ==
    << <<"J","A","N">>, <<"F","E","B">>, <<"M","A","R">>, <<"A","P","R">>,
       <<"M","A","Y">>, <<"J","U","N">>, <<"J","U","L">>, <<"A","U","G">>,
       <<"S","E","P">>, <<"O","C","T">>, <<"N","O","V">>, <<"D","E","C">> >>

\* month_map.get(period), 0 when the period is no month
month_map(period) ==
    IF \E m \in 1..Len(MonthNames) : MonthNames[m] = period
    THEN CHOOSE m \in 1..Len(MonthNames) : MonthNames[m] = period
    ELSE 0

Digits == <<"0","1","2","3","4","5","6","7","8","9">>

IsDigit(c) == \E i \in 1..Len(Digits) : Digits[i] = c

DigitValue(c) == (CHOOSE i \in 1..Len(Digits) : Digits[i] = c) - 1

\* str.extract(r"FY(\d{2})") as a number, fillna(26), plus 2000
FiscalYear(fy) ==
    LET hits == {i \in 1..(Len(fy) - 3) :
                    /\ fy[i] = "F"
                    /\ fy[i + 1] = "Y"
                    /\ IsDigit(fy[i + 2])
                    /\ IsDigit(fy[i + 3])}
    IN IF hits = {} THEN 2026
       ELSE LET i == CHOOSE i \in hits : \A j \in hits : i <= j
            IN 2000 + 10 * DigitValue(fy[i + 2]) + DigitValue(fy[i + 3])

\* the rows of the sheet from the start row on; the two budget columns are
\* carried through unused and are left out
parse_marketing_copy_2026(sheet) ==
    LET stripped == [i \in 1..Len(sheet) |->
                       [fiscal_year |-> str_strip(astype_str(sheet[i].fiscal_year)),
                        BU |-> str_strip(astype_str(sheet[i].BU)),
                        Location |-> str_strip(astype_str(sheet[i].Location)),
                        Geography |-> str_strip(astype_str(sheet[i].Geography)),
                        Product |-> str_strip(astype_str(sheet[i].Product)),
                        Period |-> str_strip(astype_str(sheet[i].Period)),
                        Forecast_Dollars |-> to_numeric(sheet[i].Forecast_Dollars),
                        Forecast_Quantity |-> to_numeric(sheet[i].Forecast_Quantity)]]
        data == SelectSeq(stripped, LAMBDA r : month_map(str_upper(r.Period)) # 0)
    IN IF Len(sheet) = 0 \/ data = <<>>
       THEN [raised |-> TRUE, frame |-> <<>>]
       ELSE [raised |-> FALSE,
             frame |-> [i \in 1..Len(data) |->
                 [BU |-> data[i].BU,
                  Location |-> data[i].Location,
                  Geography |-> data[i].Geography,
                  Product |-> data[i].Product,
                  Date |-> Timestamp(FiscalYear(str_upper(data[i].fiscal_year)),
                                     month_map(str_upper(data[i].Period)), 1),
                  Forecast_Dollars |-> data[i].Forecast_Dollars,
                  Forecast_Quantity |-> data[i].Forecast_Quantity]]]

RECURSIVE Sorted(_)
Sorted(S) ==
    IF S = {} THEN <<>>
    ELSE LET least == CHOOSE x \in S : \A y \in S : x <= y
         IN <<least>> \o Sorted(S \ {least})

\* mutant: any month at all is enough
validate_marketing_copy_2026_AnyMonth(df) ==
    LET months == {df[i].Date.m : i \in {j \in 1..Len(df) : df[j].Date # NaT}}
    IN [raised |-> months = {},
        rows |-> Len(df),
        months |-> Sorted(months)]

validate_marketing_copy_2026(df) ==
    LET months == {df[i].Date.m : i \in {j \in 1..Len(df) : df[j].Date # NaT}}
    IN [raised |-> Cardinality(months) # 12,
        rows |-> Len(df),
        months |-> Sorted(months)]

\* DataFrame.duplicated(subset).sum(): the rows equal to an earlier row
Duplicated(df, subset) ==
    Len(df) - Cardinality({[c \in subset |-> df[i][c]] : i \in 1..Len(df)})

Check(name, severity, passed) ==
    [name |-> name, severity |-> severity, passed |-> passed]

Failed(checks, severity) ==
    Cardinality({i \in 1..Len(checks) :
                    ~checks[i].passed /\ checks[i].severity = severity})

run_dq_checks(source, marketing, catalog, stats, actuals) ==
    LET present ==
          << Check("marketing_rows_present", "critical", marketing # <<>>),
             Check("catalog_rows_present", "critical", catalog # <<>>),
             Check("stats_rows_present_for_month", "critical", stats # <<>>),
             Check("actuals_rows_present_for_month", "critical", actuals # <<>>) >>
        geo(r) == str_strip(str_upper(astype_str(r.Geography)))
        marketing_checks ==
          IF marketing = <<>> THEN <<>>
          ELSE << Check("marketing_key_nulls", "critical",
                        \A i \in 1..Len(marketing) :
                            /\ ~IsNullText(marketing[i].BU)
                            /\ ~IsNullText(marketing[i].Location)
                            /\ ~IsNullText(marketing[i].Product)
                            /\ marketing[i].Date # NaT),
                  Check("marketing_duplicate_keys", "warning",
                        Duplicated(marketing,
                            {"BU", "Location", "Geography", "Product", "Date"}) = 0),
                  Check("marketing_geography_filter_behavior", "warning",
                        \A i \in 1..Len(marketing) : geo(marketing[i]) = S_AMERICAS) >>
        actuals_checks ==
          IF actuals = <<>> THEN <<>>
          ELSE << Check("actuals_key_nulls", "critical",
                        \A i \in 1..Len(actuals) :
                            /\ ~IsNullText(actuals[i].Product)
                            /\ ~IsNullText(actuals[i].Division)
                            /\ actuals[i].Month # NaT),
                  Check("actuals_duplicate_keys", "warning",
                        Duplicated(actuals, {"Product", "Division", "Month"}) = 0) >>
        stats_checks ==
          IF stats = <<>> THEN <<>>
          ELSE << Check("stats_key_nulls", "critical",
                        \A i \in 1..Len(stats) :
                            /\ ~IsNullText(stats[i].product_id)
                            /\ ~IsNullText(stats[i].bu_id)
                            /\ stats[i].forecast_month # NaT
                            /\ ~IsNullText(stats[i].model_type)),
                  Check("stats_duplicate_keys", "warning",
                        Duplicated(stats,
                            {"product_id", "bu_id", "forecast_month",
                             "model_type", "run_id"}) = 0) >>
        catalog_checks ==
          IF catalog = <<>> THEN <<>>
          ELSE << Check("catalog_key_nulls", "critical",
                        \A i \in 1..Len(catalog) :
                            /\ ~IsNullText(catalog[i].group_key)
                            /\ ~IsNullText(catalog[i].business_unit_code)
                            /\ ~IsNullText(catalog[i].sku_list)) >>
        key(r) == <<r.BU, r.Location, r.Geography, r.Product>>
        month_count(k) ==
            Cardinality({marketing[i].Date.m :
                           i \in {j \in 1..Len(marketing) :
                                     key(marketing[j]) = k /\ marketing[j].Date # NaT}})
        copy_checks ==
          IF source # "copy2026" THEN <<>>
          ELSE << Check("marketing_12_month_completeness_per_key", "warning",
                        \A i \in 1..Len(marketing) :
                            month_count(key(marketing[i])) = 12) >>
        checks == present \o marketing_checks \o actuals_checks \o stats_checks
                     \o catalog_checks \o copy_checks
    IN [source |-> source,
        checks_total |-> Len(checks),
        checks_failed |-> Failed(checks, "critical") + Failed(checks, "warning"),
        critical_failed |-> Failed(checks, "critical"),
        warning_failed |-> Failed(checks, "warning"),
        checks |-> checks]

\* mutant: the gate closed by warnings
DqAbort_OnWarning(dq_mode, results) ==
    dq_mode = "fail" /\ results.warning_failed > 0

\* mutant: the gate closed in warn mode as well
DqAbort_InWarnMode(dq_mode, results) ==
    dq_mode \in {"warn", "fail"} /\ results.critical_failed > 0

\* main: the data-quality gate
DqAbort(dq_mode, results) == dq_mode = "fail" /\ results.critical_failed > 0

\* what read_excel gives for a text cell to_excel wrote: a missing cell, and a
\* cell holding one of the default NA strings, is read as NaN
read_excel_text(c) ==
    IF c \in {MissingNaN, MissingNone, S_Empty,
              <<"n","a","n">>, <<"N","o","n","e">>, <<"N","a","N">>}
    THEN MissingNaN ELSE c

read_excel_marketing(df) ==
    [i \in 1..Len(df) |->
        [df[i] EXCEPT !.BU = read_excel_text(@), !.Location = read_excel_text(@),
                      !.Geography = read_excel_text(@),
                      !.Product = read_excel_text(@)]]

read_excel_catalog(df) ==
    [i \in 1..Len(df) |-> [f \in DOMAIN df[i] |-> read_excel_text(df[i][f])]]

read_excel_stats(df) ==
    [i \in 1..Len(df) |->
        [df[i] EXCEPT !.product_id = read_excel_text(@),
                      !.bu_id = read_excel_text(@),
                      !.model_type = read_excel_text(@)]]

read_excel_actuals(df) ==
    [i \in 1..Len(df) |->
        [df[i] EXCEPT !.Product = read_excel_text(@),
                      !.Division = read_excel_text(@)]]

----------------------------------------------------------------------------
(* build_forecast_accuracy_trend_report_db.py *)

\* the characters of the text cells, in code point order
Alphabet ==
    <<" ", "-", "0","1","2","3","4","5","6","7","8","9", "<", ">",
      "A","B","C","D","E","F","G","H","I","J","K","L","M",
      "N","O","P","Q","R","S","T","U","V","W","X","Y","Z", "_",
      "a","b","c","d","e","f","g","h","i","j","k","l","m",
      "n","o","p","q","r","s","t","u","v","w","x","y","z", "|">>

CharRank ==
    [c \in {Alphabet[i] : i \in 1..Len(Alphabet)} |->
        CHOOSE i \in 1..Len(Alphabet) : Alphabet[i] = c]

\* a < b on Python strings
RECURSIVE TextLess(_, _)
TextLess(a, b) ==
    IF a = <<>> THEN b # <<>>
    ELSE IF b = <<>> THEN FALSE
    ELSE IF a[1] = b[1] THEN TextLess(Tail(a), Tail(b))
    ELSE CharRank[a[1]] < CharRank[b[1]]

MonthIndex(ts) == ts.y * 12 + (ts.m - 1)

MonthOf(index) == Timestamp(index \div 12, (index % 12) + 1, 1)

\* resolve_window and month_sequence: the window_months months up to the anchor
month_sequence(anchor_month, window_months) ==
    [i \in 1..window_months |->
        MonthOf(MonthIndex(anchor_month) - window_months + i)]

\* the WHERE clauses of load_from_db; the catalog view is read whole
load_from_db(tables, month) ==
    [marketing |-> SelectSeq(tables.marketing, LAMBDA r : SamePeriod(r.Date, month)),
     catalog |-> tables.catalog,
     stats |-> SelectSeq(tables.stats,
                         LAMBDA r : SamePeriod(r.forecast_month, month)),
     actuals |-> SelectSeq(tables.actuals, LAMBDA r : SamePeriod(r.Month, month))]

\* safe_ratio of the trend module
trend_safe_ratio(numerator, denominator) ==
    IF denominator = 0 THEN None ELSE Quotient(numerator, denominator)

\* _view_rows: the stats_model row and the marketing row of one group
view_rows(frame, month_start, units, view_level, bu_code, bu_name, prod_fam, product, marketing_manager) ==
    LET actuals_sum == SumField(frame, "Actuals")
        stats_forecast_sum == SumField(frame, "Stats_Model_Fcast")
        marketing_forecast_sum == SumField(frame, "Marketing_Fcast")
        base == [month_start |-> month_start, units |-> units,
                 view_level |-> view_level, bu_code |-> bu_code,
                 bu_name |-> bu_name, prod_fam |-> prod_fam,
                 product |-> product, marketing_manager |-> marketing_manager,
                 metric_name |-> "midmark_fcast_acc",
                 actuals_sum |-> actuals_sum]
    IN << base @@ [model_side |-> "stats_model",
                   metric_value |-> trend_safe_ratio(actuals_sum, stats_forecast_sum),
                   forecast_sum |-> stats_forecast_sum,
                   abs_error_sum |-> SumField(frame, "Stats_Abs_Error")],
          base @@ [model_side |-> "marketing",
                   metric_value |-> trend_safe_ratio(actuals_sum, marketing_forecast_sum),
                   forecast_sum |-> marketing_forecast_sum,
                   abs_error_sum |-> SumField(frame, "Marketing_Abs_Error")] >>

\* the elements of a set one after the other; the order of the groups of one
\* month in the trend frame is not modelled
RECURSIVE SetToSeq(_)
SetToSeq(S) ==
    IF S = {} THEN <<>>
    ELSE LET x == CHOOSE x \in S : TRUE IN <<x>> \o SetToSeq(S \ {x})

\* group["Prod Fam"].iloc[0]: Raw Data is in the order of the marketing
\* rollup, so the first row of a product group has the least family, a
\* missing family last
FirstProdFam(group) ==
    LET fams == {r.Prod_Fam : r \in group}
        present == {f \in fams : ~IsNullText(f)}
    IN IF present = {} THEN astype_str(CHOOSE f \in fams : TRUE)
       ELSE CHOOSE f \in present : \A g \in present : f = g \/ TextLess(f, g)

build_month_trend_rows(raw, month_start) ==
    Flatten([u \in 1..2 |->
        LET units == <<S_quantity, S_dollars>>[u]
            unit_df == UnitDf(raw, units)
            bu_keys == SetToSeq({BuKey(r) : r \in unit_df})
            fam_keys == SetToSeq({ProdFamKey(r) : r \in unit_df})
            product_keys == SetToSeq({ProductKey(r) : r \in unit_df})
        IN IF unit_df = {} THEN <<>>
           ELSE view_rows(unit_df, month_start, units, "total", S_ALL, S_Total,
                          S_Empty, S_Empty, S_Empty)
                \o Flatten([i \in 1..Len(bu_keys) |->
                      view_rows({r \in unit_df : BuKey(r) = bu_keys[i]},
                                month_start, units, "bu",
                                astype_str(bu_keys[i].BU_Code),
                                astype_str(bu_keys[i].BU_Name),
                                S_Empty, S_Empty, S_Empty)])
                \o Flatten([i \in 1..Len(fam_keys) |->
                      view_rows({r \in unit_df : ProdFamKey(r) = fam_keys[i]},
                                month_start, units, "prod_fam",
                                astype_str(fam_keys[i].BU_Code),
                                astype_str(fam_keys[i].BU_Name),
                                astype_str(fam_keys[i].Prod_Fam),
                                S_Empty, S_Empty)])
                \o Flatten([i \in 1..Len(product_keys) |->
                      LET group == {r \in unit_df : ProductKey(r) = product_keys[i]}
                      IN view_rows(group, month_start, units, "product",
                                   astype_str(product_keys[i].BU_Code),
                                   astype_str(product_keys[i].BU_Name),
                                   astype_str(FirstProdFam(group)),
                                   astype_str(product_keys[i].Product),
                                   astype_str(product_keys[i].Marketing_Manager))])])

\* a - b on two floats, null when one of them is
Minus(a, b) ==
    IF a = None \/ b = None THEN None
    ELSE Quotient(a.n * b.d - b.n * a.d, a.d * b.d)

\* pivot_table(index, columns="model_side", values="metric_value",
\* aggfunc="first") and the delta column; a side with no value in the whole
\* frame has no column, and the delta then raises KeyError
Pivot(rows, index) ==
    LET Index(r) == [c \in index |-> r[c]]
        live == {i \in 1..Len(rows) : rows[i].metric_value # None}
        of(k, side) == {i \in live : Index(rows[i]) = k /\ rows[i].model_side = side}
        first(k, side) ==
            IF of(k, side) = {} THEN None
            ELSE rows[CHOOSE i \in of(k, side) :
                         \A j \in of(k, side) : i <= j].metric_value
    IN [raised |-> \/ ~\E i \in live : rows[i].model_side = "stats_model"
                   \/ ~\E i \in live : rows[i].model_side = "marketing",
        wide |-> { k @@ [stats_model_acc |-> first(k, "stats_model"),
                         marketing_acc |-> first(k, "marketing"),
                         delta_stats_minus_marketing |->
                             Minus(first(k, "stats_model"), first(k, "marketing"))]
                   : k \in {Index(rows[i]) : i \in live} }]

TotalsIndex == {"month_start", "units"}

BuIndex == {"month_start", "units", "bu_code", "bu_name"}

ProdFamIndex == {"month_start", "units", "bu_code", "bu_name", "prod_fam"}

ProductIndex ==
    {"month_start", "units", "bu_code", "bu_name", "prod_fam", "product",
     "marketing_manager", "actuals_sum"}

\* the (units, product) keys of rank <= top_n_products in the anchor month
TopKeys(product_all, anchor_month, top_n_products) ==
    LET latest == SelectSeq(product_all, LAMBDA r : r.month_start = anchor_month)
        latest_rank == {[units |-> latest[i].units, product |-> latest[i].product,
                         actuals_sum |-> latest[i].actuals_sum]
                        : i \in 1..Len(latest)}
        before(a, b) == \/ a.actuals_sum > b.actuals_sum
                        \/ /\ a.actuals_sum = b.actuals_sum
                           /\ TextLess(a.product, b.product)
        rank(t) == 1 + Cardinality({x \in latest_rank :
                                       x.units = t.units /\ before(x, t)})
    IN {[units |-> t.units, product |-> t.product]
        : t \in {x \in latest_rank : rank(x) <= top_n_products}}

build_views(trend_df, anchor_month, top_n_products) ==
    LET level(name) == SelectSeq(trend_df, LAMBDA r : r.view_level = name)
        product_all == level("product")
        top_keys == TopKeys(product_all, anchor_month, top_n_products)
        product_top == SelectSeq(product_all, LAMBDA r :
                          [units |-> r.units, product |-> r.product] \in top_keys)
        totals == Pivot(level("total"), TotalsIndex)
        bu == Pivot(level("bu"), BuIndex)
        prod_fam == Pivot(level("prod_fam"), ProdFamIndex)
        product == Pivot(product_top, ProductIndex)
    IN [raised |-> totals.raised \/ bu.raised \/ prod_fam.raised \/ product.raised,
        totals |-> totals.wide,
        bu |-> bu.wide,
        prod_fam |-> prod_fam.wide,
        product_top |-> product.wide]

TrendGrain ==
    {"month_start", "units", "view_level", "bu_code", "bu_name", "prod_fam",
     "product", "marketing_manager", "model_side"}

\* run_dq_checks of the trend module
trend_run_dq_checks(trend_df, expected_months, source_row_counts, top_n_df, top_n_products) ==
    LET available == {trend_df[i].month_start : i \in 1..Len(trend_df)}
        coverage_issues ==
            {i \in 1..Len(source_row_counts) :
                \/ source_row_counts[i].marketing_rows = 0
                \/ source_row_counts[i].stats_rows = 0
                \/ source_row_counts[i].actuals_rows = 0}
        topn_count(units) ==
            Cardinality({r.product : r \in {x \in top_n_df : x.units = units}})
        checks ==
          << Check("rolling_window_completeness", "warning",
                   \A i \in 1..Len(expected_months) :
                       expected_months[i] \in available),
             Check("source_coverage_by_month", "critical", coverage_issues = {}),
             Check("trend_grain_uniqueness", "critical",
                   Duplicated(trend_df, TrendGrain) = 0),
             Check("denominator_validity", "critical",
                   \A i \in 1..Len(trend_df) :
                       ~(trend_df[i].forecast_sum <= 0
                         /\ trend_df[i].metric_value # None)),
             Check("topn_rank_integrity", "critical",
                   \A r \in top_n_df : topn_count(r.units) <= top_n_products) >>
    IN [source |-> "db",
        checks_total |-> Len(checks),
        checks_failed |-> Failed(checks, "critical") + Failed(checks, "warning"),
        critical_failed |-> Failed(checks, "critical"),
        warning_failed |-> Failed(checks, "warning"),
        checks |-> checks]

----------------------------------------------------------------------------
(* The rows the source tables are drawn from *)

Mar2024 == Timestamp(2024, 3, 1)
Feb2024 == Timestamp(2024, 2, 1)

MarketingRow(bu, loc, geo, product, dt, dollars, quantity) ==
    [BU |-> bu, Location |-> loc, Geography |-> geo, Product |-> product,
     Date |-> dt, Forecast_Dollars |-> dollars, Forecast_Quantity |-> quantity]

CatalogRow(gk, bu, bu_name, skus, fam, mgr, mode) ==
    [group_key |-> gk, business_unit_code |-> bu, business_unit_name |-> bu_name,
     sku_list |-> skus, product_family |-> fam, marketing_manager |-> mgr,
     salesforce_feature_mode |-> mode]

StatsRow(product, bu, month, model, val, recommended) ==
    [product_id |-> product, bu_id |-> bu, forecast_month |-> month,
     model_type |-> model, forecast_value |-> val,
     recommended_model |-> recommended, run_id |-> 1]

ActualsRow(product, division, month, val) ==
    [Product |-> product, Division |-> division, Month |-> month,
     Actuals |-> val, Bookings |-> NaN]

MarketingRows ==
    << MarketingRow(S_D100, S_LOC1, S_AMERICAS, S_WIDGET_A, Mar2024, Num(50), Num(100)),
       MarketingRow(S_d100_pad, S_LOC1, S_Americas, S_widget_a_pad,
                    Timestamp(2024, 3, 15), Num(7), TextCell),
       MarketingRow(S_D200, S_loc1020_pad, S_AMERICAS, S_TOTAL_CASEWORK, Mar2024, Num(30), Num(3)),
       MarketingRow(S_D200, S_LOC1080, S_AMERICAS, S_total_casework, Mar2024, Num(40), Num(4)),
       MarketingRow(S_D200, S_LOC1, S_AMERICAS, S_TOTAL_CASEWORK, Mar2024, Num(5), NaN),
       MarketingRow(S_D100, S_LOC1, S_AMERICAS, S_GADGET, Mar2024, Num(9), Num(9)),
       MarketingRow(S_D100, S_LOC1, S_EMEA, S_WIDGET_A, Mar2024, Num(11), Num(11)),
       MarketingRow(S_D100, S_LOC1, S_AMERICAS, S_WIDGET_A, Feb2024, Num(13), Num(13)) >>

CatalogRows ==
    << CatalogRow(S_FAM1, S_D100, S_Medical, S_WIDGET_A, S_Casegoods, S_Ann, S_Quantity),
       CatalogRow(S_FAM2, S_D100, S_Medical, S_SKUS_AB, S_Casegoods, S_Bob, S_Dollars_pad),
       CatalogRow(S_Artisan_Casework, S_Division, S_Division, S_TOTAL_CASEWORK,
                  S_Casegoods, S_Ann, S_dollars),
       CatalogRow(S_SYNTHESIS_CASEWORK, S_D200, S_D200, S_TOTAL_CASEWORK,
                  S_Casegoods, S_Bob, S_Quantity),
       CatalogRow(S_FAM2, S_D200, S_D200, S_TOTAL_CASEWORK, S_Casegoods, S_Bob, MissingNaN) >>

StatsRows ==
    << StatsRow(S_FAM1, S_D100, Mar2024, S_BLEND, Num(90), FALSE),
       StatsRow(S_fam1, S_d100_pad, Mar2024, S_blend_pad, Num(10), TRUE),
       StatsRow(S_FAM2, S_D100, Mar2024, S_ETS, Num(60), TRUE),
       StatsRow(S_FAM2, S_D100, Mar2024, S_BLEND, NaN, FALSE),
       StatsRow(S_FAM1, S_D100, Feb2024, S_BLEND, Num(500), TRUE) >>

ActualsRows ==
    << ActualsRow(S_WIDGET_A, S_D100, Mar2024, Num(120)),
       ActualsRow(S_FAM1, S_D100, Mar2024, Num(120)),
       ActualsRow(S_fam1, S_d100_pad, Mar2024, Num(-120)),
       ActualsRow(S_FAM1, S_D100, Feb2024, Num(70)) >>

\* the rows the database tables and the files of the monthly and trend runs
\* are drawn from
DbMarketingRows ==
    << MarketingRows[1], MarketingRows[7], MarketingRows[8] >>

DbCatalogRows ==
    << CatalogRows[1], CatalogRows[2],
       CatalogRow(MissingNone, S_D100, S_Medical, S_GADGET, S_Casegoods, S_Ann,
                  S_Quantity) >>

DbStatsRows == << StatsRows[1], StatsRows[5] >>

DbActualsRows == << ActualsRows[2], ActualsRows[4] >>

S_FY24 == <<"F","Y","2","4">>

\* the rows of the 2026 Data sheet for one marketing row: the twelve periods
\* of its fiscal year and the Total line, or the one period of its month
SheetRows(r, full_year) ==
    LET line(period) ==
            [fiscal_year |-> S_FY24, BU |-> r.BU, Location |-> r.Location,
             Geography |-> r.Geography, Product |-> r.Product, Period |-> period,
             Forecast_Dollars |-> r.Forecast_Dollars,
             Forecast_Quantity |-> r.Forecast_Quantity]
    IN IF full_year
       THEN [m \in 1..Len(MonthNames) |-> line(MonthNames[m])] \o <<line(S_Total)>>
       ELSE <<line(MonthNames[r.Date.m])>>

Sheet(rows, full_year) ==
    Flatten([i \in 1..Len(rows) |-> SheetRows(rows[i], full_year)])

\* the tables of k different rows drawn from rows, up to the order of the rows
Tables(rows, k) ==
    { [i \in 1..k |-> rows[ix[i]]] :
        ix \in {s \in [1..k -> 1..Len(rows)] :
                    \A i \in 1..(k - 1) : s[i] < s[i + 1]} }

----------------------------------------------------------------------------
(* State *)

VARIABLES
    pc,             \* where the run is
    args,           \* the command line of the run
    marketing_df,   \* the four source frames as loaded (the four database
    catalog_df,     \* tables in the trend run)
    stats_df,
    actuals_df,
    report_month,   \* the report month, the anchor month of the trend run
    built,          \* what build_raw_data returned
    dashboards,     \* the five dashboard tables
    dq_results,     \* the summary run_dq_checks returned
    trend,          \* the month loop and the views of the trend run
    files,          \* the artifacts written so far, in the order written
    call            \* the call of a function taken on its own, and its result

frames == <<marketing_df, catalog_df, stats_df, actuals_df, report_month>>
vars == <<pc, args, marketing_df, catalog_df, stats_df, actuals_df,
          report_month, built, dashboards, dq_results, trend, files, call>>

NotBuilt ==
    [raw |-> {}, skipped |-> <<>>, merged |-> <<>>, marketing_detail |-> <<>>,
     stats_rollup |-> {}, agg |-> {}, actuals_rollup |-> {}]

NoDashboards ==
    [totals |-> {}, prod_fam |-> {}, prod_fam_wape |-> {},
     marketing_mgr |-> {}, product |-> {}]

NoArgs ==
    [data_source |-> "legacy", dq_mode |-> "off", compare_baseline |-> "none",
     window_months |-> 0, top_n_products |-> 0]

NoCall == [fn |-> "", args |-> <<>>, returned |-> FALSE, result |-> <<>>]

NoDq ==
    [source |-> "", checks_total |-> 0, checks_failed |-> 0,
     critical_failed |-> 0, warning_failed |-> 0, checks |-> <<>>]

NoViews ==
    [raised |-> FALSE, totals |-> {}, bu |-> {}, prod_fam |-> {},
     product_top |-> {}]

NoTrend ==
    [months |-> <<>>, next |-> 1, source_counts |-> <<>>, trend_df |-> <<>>,
     views |-> NoViews]

----------------------------------------------------------------------------
(* build_forecast_accuracy_report.py: write_report *)

Init ==
    /\ pc = "start"
    /\ args = NoArgs
    /\ marketing_df = <<>>
    /\ catalog_df = <<>>
    /\ stats_df = <<>>
    /\ actuals_df = <<>>
    /\ report_month = Mar2024
    /\ built = NotBuilt
    /\ dashboards = NoDashboards
    /\ dq_results = NoDq
    /\ trend = NoTrend
    /\ files = <<>>
    /\ call = NoCall

\* the four loaders of write_report
LoadFrames ==
    /\ pc = "start"
    /\ \E a \in 0..MaxRows :
       \E b \in 0..(MaxRows - a) :
       \E c \in 0..(MaxRows - a - b) :
       \E d \in 0..(MaxRows - a - b - c) :
          /\ marketing_df' \in Tables(MarketingRows, a)
          /\ \E sheet \in Tables(CatalogRows, b) :
                catalog_df' = load_product_catalog(sheet)
          /\ stats_df' \in Tables(StatsRows, c)
          /\ actuals_df' \in Tables(ActualsRows, d)
    /\ pc' = "loaded"
    /\ UNCHANGED <<call, args, report_month, built, dashboards, dq_results, trend, files>>

BuildRawData ==
    /\ pc = "loaded"
    /\ built' = build_raw_data(marketing_df, catalog_df, stats_df, actuals_df,
                               report_month)
    /\ pc' = "raw"
    /\ UNCHANGED <<call, args, frames, dashboards, dq_results, trend, files>>

\* merged.apply(..., axis=1) of an empty merged frame returns a frame, and
\* assigning a frame to the column Marketing Fcast raises or not with the
\* pandas build
BuildRawDataRaises ==
    /\ pc = "loaded"
    /\ build_raw_data(marketing_df, catalog_df, stats_df, actuals_df,
                      report_month).merged = <<>>
    /\ pc' = "raised"
    /\ UNCHANGED <<call, args, frames, built, dashboards, dq_results, trend, files>>

BuildDashboards ==
    /\ pc = "raw"
    /\ dashboards' = build_dashboards(built.raw)
    /\ pc' = "dashboards"
    /\ UNCHANGED <<call, args, frames, built, dq_results, trend, files>>

\* the report workbook, then the validation workbook
WriteWorkbooks ==
    /\ pc = "dashboards"
    /\ files' = files \o <<"report", "validation">>
    /\ pc' = "written"
    /\ UNCHANGED <<call, args, frames, built, dashboards, dq_results, trend>>

Next ==
    \/ LoadFrames
    \/ BuildRawData
    \/ BuildRawDataRaises
    \/ BuildDashboards
    \/ WriteWorkbooks

Spec == Init /\ [][Next]_vars

----------------------------------------------------------------------------
(* build_forecast_accuracy_report_db.py: main *)

DataSources == {"copy2026", "legacy", "db"}

DqModes == {"off", "warn", "fail"}

InitMonthly ==
    /\ pc = "main"
    /\ args \in {[NoArgs EXCEPT !.data_source = ds, !.dq_mode = mode,
                                 !.compare_baseline = base]
                 : ds \in DataSources, mode \in DqModes,
                   base \in DataSources \cup {"none"}}
    /\ marketing_df = <<>>
    /\ catalog_df = <<>>
    /\ stats_df = <<>>
    /\ actuals_df = <<>>
    /\ report_month = Mar2024
    /\ built = NotBuilt
    /\ dashboards = NoDashboards
    /\ dq_results = NoDq
    /\ trend = NoTrend
    /\ files = <<>>
    /\ call = NoCall

\* the rows behind the source: files for legacy and copy2026, tables for db
SourceTables ==
    UNION { { [marketing |-> mk, catalog |-> cat, stats |-> st, actuals |-> ac]
              : mk \in Tables(DbMarketingRows, a), cat \in Tables(DbCatalogRows, b),
                st \in Tables(DbStatsRows, c), ac \in Tables(DbActualsRows, d) }
            : <<a, b, c, d>> \in
                 {q \in (0..MaxDqRows) \X (0..MaxDqRows) \X (0..MaxDqRows)
                            \X (0..MaxDqRows) :
                     q[1] + q[2] + q[3] + q[4] <= MaxDqRows} }

\* load_frames: what it returns, or that it raised
load_frames(source, tables, full_year, month) ==
    LET parsed == parse_marketing_copy_2026(Sheet(tables.marketing, full_year))
        files_read ==
            [marketing |-> read_excel_marketing(tables.marketing),
             catalog |-> load_product_catalog(read_excel_catalog(tables.catalog)),
             stats |-> read_excel_stats(tables.stats),
             actuals |-> read_excel_actuals(tables.actuals)]
    IN IF source = "legacy" THEN [raised |-> FALSE, frames |-> files_read]
       ELSE IF source = "copy2026"
       THEN [raised |-> parsed.raised
                        \/ validate_marketing_copy_2026(parsed.frame).raised,
             frames |-> [files_read EXCEPT !.marketing = parsed.frame]]
       ELSE [raised |-> FALSE, frames |-> load_from_db(tables, month)]

Main_LoadFrames ==
    /\ pc = "main"
    /\ \E tables \in SourceTables, full_year \in BOOLEAN :
          LET loaded == load_frames(args.data_source, tables, full_year, report_month)
          IN /\ ~loaded.raised
             /\ marketing_df' = loaded.frames.marketing
             /\ catalog_df' = loaded.frames.catalog
             /\ stats_df' = loaded.frames.stats
             /\ actuals_df' = loaded.frames.actuals
    /\ pc' = "run_dq_checks"
    /\ UNCHANGED <<call, args, report_month, built, dashboards, dq_results, trend, files>>

Main_LoadFramesRaises ==
    /\ pc = "main"
    /\ \E tables \in SourceTables, full_year \in BOOLEAN :
          load_frames(args.data_source, tables, full_year, report_month).raised
    /\ pc' = "load_raised"
    /\ UNCHANGED <<call, args, frames, built, dashboards, dq_results, trend, files>>

\* run_dq_checks and the write of the DQ log
Main_RunDqChecks ==
    /\ pc = "run_dq_checks"
    /\ dq_results' = run_dq_checks(args.data_source, marketing_df, catalog_df,
                                   stats_df, actuals_df)
    /\ files' = Append(files, "dq_log")
    /\ pc' = "dq_gate"
    /\ UNCHANGED <<call, args, frames, built, dashboards, trend>>

Main_DqAbort ==
    /\ pc = "dq_gate"
    /\ DqAbort(args.dq_mode, dq_results)
    /\ pc' = "aborted"
    /\ UNCHANGED <<call, args, frames, built, dashboards, dq_results, trend, files>>

Main_DqPass ==
    /\ pc = "dq_gate"
    /\ ~DqAbort(args.dq_mode, dq_results)
    /\ pc' = "build_report"
    /\ UNCHANGED <<call, args, frames, built, dashboards, dq_results, trend, files>>

\* the frames written to temporary workbooks and read back by write_report
build_report_from_frames(marketing, catalog, stats, actuals, month) ==
    build_raw_data(read_excel_marketing(marketing),
                   load_product_catalog(read_excel_catalog(catalog)),
                   read_excel_stats(stats), read_excel_actuals(actuals), month)

Main_BuildReport ==
    /\ pc = "build_report"
    /\ built' = build_report_from_frames(marketing_df, catalog_df, stats_df,
                                         actuals_df, report_month)
    /\ dashboards' = build_dashboards(built'.raw)
    /\ files' = files \o <<"report", "validation">>
    /\ pc' = "compare"
    /\ UNCHANGED <<call, args, frames, dq_results, trend>>

Main_BuildReportRaises ==
    /\ pc = "build_report"
    /\ build_report_from_frames(marketing_df, catalog_df, stats_df, actuals_df,
                                report_month).merged = <<>>
    /\ pc' = "report_raised"
    /\ UNCHANGED <<call, args, frames, built, dashboards, dq_results, trend, files>>

Compares == args.compare_baseline \notin {"none", args.data_source}

\* the comparison workbook; the baseline frames and the sheets of the
\* workbook are not modelled
Main_Comparison ==
    /\ pc = "compare"
    /\ Compares
    /\ files' = Append(files, "comparison")
    /\ pc' = "done"
    /\ UNCHANGED <<call, args, frames, built, dashboards, dq_results, trend>>

\* load_frames or build_raw_data raising on the baseline
Main_ComparisonRaises ==
    /\ pc = "compare"
    /\ Compares
    /\ pc' = "compare_raised"
    /\ UNCHANGED <<call, args, frames, built, dashboards, dq_results, trend, files>>

Main_NoComparison ==
    /\ pc = "compare"
    /\ ~Compares
    /\ pc' = "done"
    /\ UNCHANGED <<call, args, frames, built, dashboards, dq_results, trend, files>>

NextMonthly ==
    \/ Main_LoadFrames
    \/ Main_LoadFramesRaises
    \/ Main_RunDqChecks
    \/ Main_DqAbort
    \/ Main_DqPass
    \/ Main_BuildReport
    \/ Main_BuildReportRaises
    \/ Main_Comparison
    \/ Main_ComparisonRaises
    \/ Main_NoComparison

SpecMonthly == InitMonthly /\ [][NextMonthly]_vars

----------------------------------------------------------------------------
(* build_forecast_accuracy_trend_report_db.py: main *)

\* the values of --top-n-products tried: one product, and the default
TopNChoices == {1, 10}

DbTables ==
    [marketing |-> marketing_df, catalog |-> catalog_df, stats |-> stats_df,
     actuals |-> actuals_df]

InitTrend ==
    /\ pc = "month_loop"
    /\ \E window \in 1..MaxWindowMonths :
          /\ args \in {[NoArgs EXCEPT !.data_source = "db", !.dq_mode = mode,
                                       !.window_months = window,
                                       !.top_n_products = n]
                       : mode \in DqModes, n \in TopNChoices}
          /\ trend = [NoTrend EXCEPT !.months = month_sequence(Mar2024, window)]
    /\ \E a \in 0..MaxTrendRows :
       \E b \in 0..(MaxTrendRows - a) :
       \E c \in 0..(MaxTrendRows - a - b) :
       \E d \in 0..(MaxTrendRows - a - b - c) :
          /\ marketing_df \in Tables(DbMarketingRows, a)
          /\ catalog_df \in Tables(DbCatalogRows, b)
          /\ stats_df \in Tables(DbStatsRows, c)
          /\ actuals_df \in Tables(DbActualsRows, d)
    /\ report_month = Mar2024
    /\ built = NotBuilt
    /\ dashboards = NoDashboards
    /\ dq_results = NoDq
    /\ files = <<>>
    /\ call = NoCall

\* the frames of the month the loop is at
MonthFrames == load_from_db(DbTables, trend.months[trend.next])

MonthSkipped ==
    MonthFrames.marketing = <<>> \/ MonthFrames.stats = <<>>
        \/ MonthFrames.actuals = <<>>

MonthBuilt ==
    build_raw_data(MonthFrames.marketing, MonthFrames.catalog, MonthFrames.stats,
                   MonthFrames.actuals, trend.months[trend.next])

\* one turn of the month loop
Trend_LoadMonth ==
    /\ pc = "month_loop"
    /\ trend.next <= Len(trend.months)
    /\ LET month == trend.months[trend.next]
           counts == [month_start |-> month,
                      marketing_rows |-> Len(MonthFrames.marketing),
                      catalog_rows |-> Len(MonthFrames.catalog),
                      stats_rows |-> Len(MonthFrames.stats),
                      actuals_rows |-> Len(MonthFrames.actuals)]
           rows == IF MonthSkipped \/ MonthBuilt.raw = {} THEN <<>>
                   ELSE build_month_trend_rows(MonthBuilt.raw, month)
       IN trend' = [trend EXCEPT !.next = @ + 1,
                                 !.source_counts = Append(@, counts),
                                 !.trend_df = @ \o rows]
    /\ UNCHANGED <<call, pc, args, frames, built, dashboards, dq_results, files>>

\* build_raw_data raising on an empty merged frame
Trend_LoadMonthRaises ==
    /\ pc = "month_loop"
    /\ trend.next <= Len(trend.months)
    /\ ~MonthSkipped
    /\ MonthBuilt.merged = <<>>
    /\ pc' = "build_raised"
    /\ UNCHANGED <<call, args, frames, built, dashboards, dq_results, trend, files>>

\* SystemExit: no trend data rows for the window
Trend_NoTrendFrames ==
    /\ pc = "month_loop"
    /\ trend.next > Len(trend.months)
    /\ trend.trend_df = <<>>
    /\ pc' = "no_trend_data"
    /\ UNCHANGED <<call, args, frames, built, dashboards, dq_results, trend, files>>

Trend_BuildViews ==
    /\ pc = "month_loop"
    /\ trend.next > Len(trend.months)
    /\ trend.trend_df # <<>>
    /\ LET views == build_views(trend.trend_df, report_month, args.top_n_products)
       IN /\ ~views.raised
          /\ trend' = [trend EXCEPT !.views = views]
    /\ pc' = "run_dq_checks"
    /\ UNCHANGED <<call, args, frames, built, dashboards, dq_results, files>>

\* KeyError: a pivot without the stats_model or the marketing column
Trend_BuildViewsRaises ==
    /\ pc = "month_loop"
    /\ trend.next > Len(trend.months)
    /\ trend.trend_df # <<>>
    /\ build_views(trend.trend_df, report_month, args.top_n_products).raised
    /\ pc' = "views_raised"
    /\ UNCHANGED <<call, args, frames, built, dashboards, dq_results, trend, files>>

\* run_dq_checks and the write of the DQ log
Trend_RunDqChecks ==
    /\ pc = "run_dq_checks"
    /\ dq_results' = trend_run_dq_checks(trend.trend_df, trend.months,
                                         trend.source_counts,
                                         trend.views.product_top,
                                         args.top_n_products)
    /\ files' = Append(files, "dq_log")
    /\ pc' = "write_outputs"
    /\ UNCHANGED <<call, args, frames, built, dashboards, trend>>

\* write_outputs: the trend workbook
Trend_WriteOutputs ==
    /\ pc = "write_outputs"
    /\ files' = Append(files, "trend_workbook")
    /\ pc' = "dq_gate"
    /\ UNCHANGED <<call, args, frames, built, dashboards, dq_results, trend>>

\* main of the trend module: the data-quality gate
TrendDqAbort(dq_mode, results) == dq_mode = "fail" /\ results.critical_failed > 0

Trend_DqAbort ==
    /\ pc = "dq_gate"
    /\ TrendDqAbort(args.dq_mode, dq_results)
    /\ pc' = "aborted"
    /\ UNCHANGED <<call, args, frames, built, dashboards, dq_results, trend, files>>

Trend_DqPass ==
    /\ pc = "dq_gate"
    /\ ~TrendDqAbort(args.dq_mode, dq_results)
    /\ pc' = "done"
    /\ UNCHANGED <<call, args, frames, built, dashboards, dq_results, trend, files>>

NextTrend ==
    \/ Trend_LoadMonth
    \/ Trend_LoadMonthRaises
    \/ Trend_NoTrendFrames
    \/ Trend_BuildViews
    \/ Trend_BuildViewsRaises
    \/ Trend_RunDqChecks
    \/ Trend_WriteOutputs
    \/ Trend_DqAbort
    \/ Trend_DqPass

SpecTrend == InitTrend /\ [][NextTrend]_vars


----------------------------------------------------------------------------
(* build_forecast_accuracy_trend_report_db.py: build_views on the trend frame
   of a window of two months *)

\* the most reconciled records in the window
MaxViewRows == 4

ViewMonths == <<Feb2024, Mar2024>>

\* the values of --top-n-products tried on three products
ViewTopN == {1, 2}

\* a reconciled record as build_raw_data leaves it
ViewRaw(month, product, division, units, actuals, stats, mkt) ==
    [Product |-> product, Division |-> division, Month |-> month,
     sku |-> S_Empty, Prod_Fam |-> S_Casegoods, Units |-> units,
     Actuals |-> Num(actuals), Stats_Model_Fcast |-> Num(stats),
     Marketing_Fcast |-> Num(mkt),
     Stats_Abs_Error |-> AbsDiff(Num(actuals), Num(stats)),
     Marketing_Abs_Error |-> AbsDiff(Num(actuals), Num(mkt)),
     BU_Name |-> division, Marketing_Manager |-> S_Ann]

\* the reconciled records a month is drawn from: a product in two business
\* units, two products of equal actuals, a record whose forecasts are both 0
ViewRawRows(month) ==
    << ViewRaw(month, S_FAM1, S_D100, S_quantity, 30, 8, 5),
       ViewRaw(month, S_FAM1, S_D100, S_quantity, 10, 8, 5),
       ViewRaw(month, S_FAM1, S_D200, S_quantity, 20, 8, 5),
       ViewRaw(month, S_FAM2, S_D100, S_quantity, 30, 8, 5),
       ViewRaw(month, S_FAM2, S_D100, S_quantity, 10, 0, 0),
       ViewRaw(month, S_GADGET, S_D100, S_quantity, 20, 8, 5),
       ViewRaw(month, S_GADGET, S_D100, S_dollars, 40, 8, 5) >>

\* the Raw Data frames of k records: one record per rollup key
ViewRawFrames(month, k) ==
    {raw \in {Range(t) : t \in Tables(ViewRawRows(month), k)} :
        \A r1, r2 \in raw :
            (ProductKey(r1) = ProductKey(r2) /\ r1.Units = r2.Units) => r1 = r2}

\* main past the month loop: the trend frame of the window
InitViews ==
    /\ pc = "month_loop"
    /\ args \in {[NoArgs EXCEPT !.data_source = "db",
                                 !.window_months = Len(ViewMonths),
                                 !.top_n_products = n] : n \in ViewTopN}
    /\ \E a \in 0..MaxViewRows :
       \E b \in 0..(MaxViewRows - a) :
       \E early \in ViewRawFrames(ViewMonths[1], a) :
       \E anchor \in ViewRawFrames(ViewMonths[2], b) :
          trend = [NoTrend EXCEPT
                      !.months = ViewMonths,
                      !.next = Len(ViewMonths) + 1,
                      !.trend_df =
                          build_month_trend_rows(early, ViewMonths[1])
                             \o build_month_trend_rows(anchor, ViewMonths[2])]
    /\ marketing_df = <<>>
    /\ catalog_df = <<>>
    /\ stats_df = <<>>
    /\ actuals_df = <<>>
    /\ report_month = ViewMonths[2]
    /\ built = NotBuilt
    /\ dashboards = NoDashboards
    /\ dq_results = NoDq
    /\ files = <<>>
    /\ call = NoCall

NextViews ==
    \/ Trend_NoTrendFrames
    \/ Trend_BuildViews
    \/ Trend_BuildViewsRaises

SpecViews == InitViews /\ [][NextViews]_vars

----------------------------------------------------------------------------
(* The two entry points with a data-quality gate: a run is a monthly run or a
   trend run; a trend run is one with a rolling window *)

InitEntryPoints == InitMonthly \/ InitTrend

NextEntryPoints ==
    \/ args.window_months = 0 /\ NextMonthly
    \/ args.window_months > 0 /\ NextTrend

SpecEntryPoints == InitEntryPoints /\ [][NextEntryPoints]_vars

----------------------------------------------------------------------------
(* Functions taken on their own: the call is drawn, the function is applied
   to it, and nothing else of the run has happened *)

NoRun ==
    /\ args = NoArgs
    /\ marketing_df = <<>>
    /\ catalog_df = <<>>
    /\ stats_df = <<>>
    /\ actuals_df = <<>>
    /\ report_month = Mar2024
    /\ built = NotBuilt
    /\ dashboards = NoDashboards
    /\ dq_results = NoDq
    /\ trend = NoTrend
    /\ files = <<>>

Calling(fn, arguments) ==
    [fn |-> fn, args |-> arguments, returned |-> FALSE, result |-> <<>>]

Returned(fn) == pc = "returned" /\ call.fn = fn /\ call.returned

(* winner_label and the winner rank of the dashboard sort. The values of a
   dashboard row are ratios in steps of a tenth from -0.1 to a tenth past
   MaxTenths tenths, some thirds and quarters, the missing values, and a
   value float() rejects *)

MaxTenths == 20

WinnerValues ==
    {Quotient(n, 10) : n \in (0 - 1)..(MaxTenths + 1)}
       \cup {Quotient(3, 4), Quotient(5, 4), Quotient(2, 3), Quotient(4, 3)}
       \cup {None, NaNFloat, NotANumber}

WinnerModes == {"closest_to_one", "lower", "higher"}

\* the rank the dashboard sort gives a label
winner_rank(winner) ==
    IF winner = "Stats Model" THEN 0
    ELSE IF winner = "Marketing" THEN 1
    ELSE 2

InitWinner ==
    /\ pc = "call"
    /\ NoRun
    /\ \E stats_val \in WinnerValues :
       \E mkt_val \in WinnerValues :
       \E mode \in WinnerModes :
          call = Calling("winner_label", <<stats_val, mkt_val, mode>>)

Call_winner_label ==
    /\ pc = "call"
    /\ call.fn = "winner_label"
    /\ LET winner == winner_label(call.args[1], call.args[2], call.args[3])
       IN call' = [call EXCEPT
                      !.returned = TRUE,
                      !.result = [winner |-> winner,
                                  winner_rank |-> winner_rank(winner)]]
    /\ pc' = "returned"
    /\ UNCHANGED <<args, marketing_df, catalog_df, stats_df, actuals_df,
                   report_month, built, dashboards, dq_results, trend, files>>

NextWinner == Call_winner_label

SpecWinner == InitWinner /\ [][NextWinner]_vars

(* highlight_winner on the two cells of a dashboard row, next to the label
   winner_label gives the same two values *)

InitHighlight ==
    /\ pc = "call"
    /\ NoRun
    /\ \E stats_val \in WinnerValues :
       \E mkt_val \in WinnerValues :
       \E mode \in WinnerModes :
          call = Calling("highlight_winner", <<stats_val, mkt_val, mode>>)

Call_highlight_winner ==
    /\ pc = "call"
    /\ call.fn = "highlight_winner"
    /\ call' = [call EXCEPT
                   !.returned = TRUE,
                   !.result =
                       [filled |-> highlight_winner(call.args[1], call.args[2],
                                                    call.args[3]),
                        winner |-> winner_label(call.args[1], call.args[2],
                                                call.args[3])]]
    /\ pc' = "returned"
    /\ UNCHANGED <<args, marketing_df, catalog_df, stats_df, actuals_df,
                   report_month, built, dashboards, dq_results, trend, files>>

NextHighlight == Call_highlight_winner

SpecHighlight == InitHighlight /\ [][NextHighlight]_vars

(* normalize_key on the keys of two rows, and on the keys it returned *)

MaxKeyLen == 3

KeyChars == {"a", "A", "b", " "}

KeyTexts == UNION {[1..n -> KeyChars] : n \in 0..MaxKeyLen}

KeyCells == KeyTexts \cup {MissingNaN, MissingNone}

InitNormalize ==
    /\ pc = "call"
    /\ NoRun
    /\ \E k1 \in KeyCells :
       \E k2 \in KeyCells :
          call = Calling("normalize_key", <<k1, k2>>)

Call_normalize_key ==
    /\ pc = "call"
    /\ call.fn = "normalize_key"
    /\ call' = [call EXCEPT
                   !.returned = TRUE,
                   !.result = [i \in 1..Len(call.args) |->
                                  normalize_key(call.args[i])]]
    /\ pc' = "returned"
    /\ UNCHANGED <<args, marketing_df, catalog_df, stats_df, actuals_df,
                   report_month, built, dashboards, dq_results, trend, files>>

\* the keys normalize_key returned are normalized once more
Call_normalize_key_Again ==
    /\ Returned("normalize_key")
    /\ call' = [call EXCEPT
                   !.args = call.result,
                   !.result = [i \in 1..Len(call.result) |->
                                  normalize_key(call.result[i])]]
    /\ pc' = "renormalized"
    /\ UNCHANGED <<args, marketing_df, catalog_df, stats_df, actuals_df,
                   report_month, built, dashboards, dq_results, trend, files>>

NextNormalize ==
    \/ Call_normalize_key
    \/ Call_normalize_key_Again

SpecNormalize == InitNormalize /\ [][NextNormalize]_vars

(* build_raw_data, the expansion of the catalog: the sku_list split, exploded
   and stripped, and the join keys of the expanded rows *)

MaxSkuLen == 4

SkuChars == {"A", "b", " ", "|"}

SkuLists ==
    UNION {[1..n -> SkuChars] : n \in 0..MaxSkuLen}
       \cup {MissingNaN, MissingNone}

ExpandEntries ==
    {CatalogRow(S_FAM1, bu, S_Medical, skus, S_Casegoods, S_Ann, S_Quantity) :
        bu \in {S_D100, S_d100_pad}, skus \in SkuLists}

InitExpand ==
    /\ pc = "call"
    /\ NoRun
    /\ \E entry \in ExpandEntries :
       \E rest \in {<<>>, <<CatalogRows[2]>>} :
          call = Calling("expand_catalog", <<<<entry>> \o rest>>)

Call_expand_catalog ==
    /\ pc = "call"
    /\ call.fn = "expand_catalog"
    /\ call' = [call EXCEPT
                   !.returned = TRUE,
                   !.result = CatalogKeys(ExpandCatalog(call.args[1]))]
    /\ pc' = "returned"
    /\ UNCHANGED <<args, marketing_df, catalog_df, stats_df, actuals_df,
                   report_month, built, dashboards, dq_results, trend, files>>

NextExpand == Call_expand_catalog

SpecExpand == InitExpand /\ [][NextExpand]_vars

(* The paths into build_raw_data: the report, the comparison build and the
   trend pipeline, from each of the sources they read. The source is the same
   rows whatever its origin, files or database tables *)

MaxPathRows == 3

PathMarketingRows ==
    << MarketingRows[1], MarketingRows[3], MarketingRows[4], MarketingRows[6] >>

\* the last entry has the group key and BU of the first in another letter
\* case, with another unit type and manager
PathCatalogRows ==
    << CatalogRows[1], CatalogRows[3], CatalogRows[4],
       CatalogRow(S_fam1, S_d100_pad, S_Medical, S_GADGET, S_Casegoods, S_Bob,
                  S_dollars) >>

PathStatsRows == << StatsRows[1], StatsRows[3] >>

PathActualsRows == << ActualsRows[2] >>

UpTo(rows) == UNION {Tables(rows, k) : k \in 0..MaxPathRows}

PathTables ==
    { [marketing |-> mk, catalog |-> cat, stats |-> st, actuals |-> ac]
      : mk \in UpTo(PathMarketingRows), cat \in UpTo(PathCatalogRows),
        st \in UpTo(PathStatsRows), ac \in UpTo(PathActualsRows) }

Paths ==
    {[source |-> ds, into |-> use]
        : ds \in DataSources, use \in {"report", "comparison"}}
       \cup {[source |-> "db", into |-> "trend"]}

\* what build_raw_data returns on a path: main of the monthly module builds
\* the report with build_report_from_frames and the raw data of the
\* comparison from the loaded frames as they are; main of the trend module
\* builds each month from the frames of load_from_db as they are
PathBuilt(path, tables, month) ==
    LET loaded == load_frames(path.source, tables, FALSE, month)
        f == loaded.frames
        db == load_from_db(tables, month)
    IN IF path.into = "trend"
       THEN [raised |-> FALSE,
             built |-> build_raw_data(db.marketing, db.catalog, db.stats,
                                      db.actuals, month)]
       ELSE IF path.into = "comparison"
       THEN [raised |-> loaded.raised,
             built |-> build_raw_data(f.marketing, f.catalog, f.stats,
                                      f.actuals, month)]
       ELSE [raised |-> loaded.raised,
             built |-> build_report_from_frames(f.marketing, f.catalog, f.stats,
                                                f.actuals, month)]

InitPaths ==
    /\ pc = "call"
    /\ NoRun
    /\ \E path \in Paths :
       \E tables \in PathTables :
          call = Calling("build_raw_data", <<path, tables>>)

Call_build_raw_data ==
    /\ pc = "call"
    /\ call.fn = "build_raw_data"
    /\ LET ran == PathBuilt(call.args[1], call.args[2], report_month)
       IN call' = [call EXCEPT
                      !.returned = TRUE,
                      !.result = [raised |-> ran.raised,
                                  raw |-> IF ran.raised THEN {}
                                          ELSE ran.built.raw]]
    /\ pc' = "returned"
    /\ UNCHANGED <<args, marketing_df, catalog_df, stats_df, actuals_df,
                   report_month, built, dashboards, dq_results, trend, files>>

NextPaths == Call_build_raw_data

SpecPaths == InitPaths /\ [][NextPaths]_vars

(* load_frames for the source copy2026: the 2026 Data sheet is parsed from
   the start row on and validated before any other table is read *)

MaxSheetRows == 2

MaxStartRow == 3

S_fy25_pad == <<"f","y","2","5"," ">>
S_FY2026 == <<"F","Y","2","0","2","6">>
S_jan_pad == <<" ","j","a","n">>
S_Period == <<"P","e","r","i","o","d">>

SheetLine(fy, period) ==
    [fiscal_year |-> fy, BU |-> S_D100, Location |-> S_LOC1,
     Geography |-> S_AMERICAS, Product |-> S_WIDGET_A, Period |-> period,
     Forecast_Dollars |-> Num(1), Forecast_Quantity |-> TextCell]

\* the lines above the data: a title line, and a line that reads like data
SheetHeads ==
    { <<>>,
      <<SheetLine(S_Period, S_Period)>>,
      <<SheetLine(S_Period, S_Period), SheetLine(S_FY2026, MonthNames[12])>> }

\* lines after the data: a padded lower-case month, a line with no period
SheetTails ==
    { <<>>,
      <<SheetLine(S_fy25_pad, S_jan_pad)>>,
      <<SheetLine(MissingNaN, MissingNaN)>> }

RawSheets ==
    { head \o Sheet(rows, full_year) \o tail
      : head \in SheetHeads, tail \in SheetTails, full_year \in BOOLEAN,
        rows \in UNION {Tables(DbMarketingRows, k) : k \in 0..MaxSheetRows} }

\* mutant: the rows above the start row parsed as well
parse_from_row_WholeSheet(raw, columns, start_row) ==
    IF Len(raw) <= start_row - 1 THEN [raised |-> TRUE, frame |-> <<>>]
    ELSE IF columns < 11 THEN [raised |-> TRUE, frame |-> <<>>]
    ELSE parse_marketing_copy_2026(raw)

\* parse_marketing_copy_2026 of a sheet of so many columns from start_row
parse_from_row(raw, columns, start_row) ==
    IF Len(raw) <= start_row - 1 THEN [raised |-> TRUE, frame |-> <<>>]
    ELSE IF columns < 11 THEN [raised |-> TRUE, frame |-> <<>>]
    ELSE parse_marketing_copy_2026(SubSeq(raw, start_row, Len(raw)))

\* load_frames, source copy2026: the tables read, in the order read
load_frames_copy2026(raw, columns, start_row) ==
    LET parsed == parse_from_row(raw, columns, start_row)
        summary == validate_marketing_copy_2026(parsed.frame)
    IN IF parsed.raised
       THEN [raised |-> "parse", frame |-> <<>>, months |-> <<>>, read |-> <<>>]
       ELSE IF summary.raised
       THEN [raised |-> "validate", frame |-> parsed.frame, months |-> <<>>,
             read |-> <<"marketing">>]
       ELSE [raised |-> "", frame |-> parsed.frame, months |-> summary.months,
             read |-> <<"marketing", "catalog", "stats", "actuals">>]

InitCopy2026 ==
    /\ pc = "call"
    /\ NoRun
    /\ \E raw \in RawSheets :
       \E columns \in {10, 11} :
       \E start_row \in 1..MaxStartRow :
          call = Calling("load_frames", <<raw, columns, start_row>>)

Call_load_frames ==
    /\ pc = "call"
    /\ call.fn = "load_frames"
    /\ call' = [call EXCEPT
                   !.returned = TRUE,
                   !.result = load_frames_copy2026(call.args[1], call.args[2],
                                                   call.args[3])]
    /\ pc' = "returned"
    /\ UNCHANGED <<args, marketing_df, catalog_df, stats_df, actuals_df,
                   report_month, built, dashboards, dq_results, trend, files>>

NextCopy2026 == Call_load_frames

SpecCopy2026 == InitCopy2026 /\ [][NextCopy2026]_vars

----------------------------------------------------------------------------
(* run_forecast_accuracy_db_monthly.py: main. The runbook is the call; its
   arguments are the skip flags and the baseline, its result the steps run
   so far with their exit codes, the exit code of the runbook and whether
   the comparison file was moved *)

MaxExitCode == 2

RunbookSteps == <<"actuals_load", "marketing_load", "catalog_load", "report_build">>

StepNumber(step) == CHOOSE i \in 1..Len(RunbookSteps) : RunbookSteps[i] = step

\* where main goes after a step
AfterStep(step) ==
    IF StepNumber(step) < Len(RunbookSteps)
    THEN RunbookSteps[StepNumber(step) + 1]
    ELSE "move_comparison"

\* mutant: the exit code of the step not looked at
run_step_Unchecked(returncode, next) == [pc |-> next, exit_code |-> 0]

\* run_step: SystemExit with the exit code of the step when it is not 0
run_step(returncode, next) ==
    IF returncode # 0 THEN [pc |-> "exited", exit_code |-> returncode]
    ELSE [pc |-> next, exit_code |-> 0]

InitRunbook ==
    /\ pc = RunbookSteps[1]
    /\ NoRun
    /\ \E skip_actuals_load \in BOOLEAN :
       \E skip_marketing_load \in BOOLEAN :
       \E skip_catalog_load \in BOOLEAN :
       \E compare_baseline \in DataSources \cup {"none"} :
          call = [fn |-> "runbook_main",
                  args |-> [skip |-> [actuals_load |-> skip_actuals_load,
                                      marketing_load |-> skip_marketing_load,
                                      catalog_load |-> skip_catalog_load,
                                      report_build |-> FALSE],
                            compare_baseline |-> compare_baseline],
                  returned |-> FALSE,
                  result |-> [steps |-> <<>>, exit_code |-> 0, moved |-> FALSE]]

RunbookIdle ==
    UNCHANGED <<args, marketing_df, catalog_df, stats_df, actuals_df,
                report_month, built, dashboards, dq_results, trend, files>>

\* a step switched off on the command line
Runbook_SkipStep ==
    /\ call.fn = "runbook_main"
    /\ \E i \in 1..Len(RunbookSteps) :
          /\ pc = RunbookSteps[i]
          /\ call.args.skip[pc]
    /\ pc' = AfterStep(pc)
    /\ UNCHANGED call
    /\ RunbookIdle

\* a step run to its end, with whatever exit code
Runbook_RunStep ==
    /\ call.fn = "runbook_main"
    /\ \E i \in 1..Len(RunbookSteps) :
          /\ pc = RunbookSteps[i]
          /\ ~call.args.skip[pc]
    /\ \E returncode \in 0..MaxExitCode :
          LET then == run_step(returncode, AfterStep(pc))
          IN /\ pc' = then.pc
             /\ call' = [call EXCEPT
                   !.returned = then.pc = "exited",
                   !.result.steps =
                       Append(@, [step |-> pc, returncode |-> returncode]),
                   !.result.exit_code = then.exit_code]
    /\ RunbookIdle

\* the comparison workbook moved when the report build left one
Runbook_MoveComparison ==
    /\ call.fn = "runbook_main"
    /\ pc = "move_comparison"
    /\ call.args.compare_baseline # "none"
    /\ \E src_exists \in BOOLEAN :
          call' = [call EXCEPT !.returned = TRUE, !.result.moved = src_exists]
    /\ pc' = "done"
    /\ RunbookIdle

Runbook_NoComparison ==
    /\ call.fn = "runbook_main"
    /\ pc = "move_comparison"
    /\ call.args.compare_baseline = "none"
    /\ call' = [call EXCEPT !.returned = TRUE]
    /\ pc' = "done"
    /\ RunbookIdle

NextRunbook ==
    \/ Runbook_SkipStep
    \/ Runbook_RunStep
    \/ Runbook_MoveComparison
    \/ Runbook_NoComparison

SpecRunbook == InitRunbook /\ [][NextRunbook]_vars

----------------------------------------------------------------------------
(* refresh_marketing_forecast_essbase.py: main. Time is counted in seconds
   from the moment polling begins; what Excel, the ribbon and the login
   dialog do is chosen by the environment *)

MaxRefreshTimeout == 7

MaxDialogSeconds == 2

ClickAttempts == 3

EarliestExit == 5

RefreshTimeouts == {0, 3, MaxRefreshTimeout}

\* the test that ends the polling loop
RefreshComplete(poll) ==
    ~poll.auth_open /\ poll.calc_done /\ poll.ready /\ poll.at >= EarliestExit

NoPoll == [auth_open |-> TRUE, calc_done |-> FALSE, ready |-> FALSE, at |-> 0]

InitRefresh ==
    /\ pc = "parse_args"
    /\ NoRun
    /\ \E password \in BOOLEAN :
       \E workbook_exists \in BOOLEAN :
       \E refresh_timeout \in RefreshTimeouts :
       \E dialog_seconds \in {0, MaxDialogSeconds} :
          call = [fn |-> "refresh_main",
                  args |-> [password |-> password,
                            workbook_exists |-> workbook_exists,
                            refresh_timeout |-> refresh_timeout,
                            dialog_seconds |-> dialog_seconds],
                  returned |-> FALSE,
                  result |-> [excel |-> FALSE, workbook |-> FALSE,
                              attempts |-> 0, clock |-> 0,
                              handled_auth |-> FALSE, poll |-> NoPoll,
                              events |-> <<>>, raised |-> ""]]

RefreshIdle ==
    UNCHANGED <<args, marketing_df, catalog_df, stats_df, actuals_df,
                report_month, built, dashboards, dq_results, trend, files>>

\* the password and the workbook path, looked at before Excel is started
Refresh_CheckArgs ==
    /\ call.fn = "refresh_main"
    /\ pc = "parse_args"
    /\ IF ~call.args.password
       THEN /\ pc' = "exit"
            /\ call' = [call EXCEPT !.returned = TRUE,
                                    !.result.raised = "ValueError"]
       ELSE IF ~call.args.workbook_exists
       THEN /\ pc' = "exit"
            /\ call' = [call EXCEPT !.returned = TRUE,
                                    !.result.raised = "FileNotFoundError"]
       ELSE /\ pc' = "dispatch"
            /\ UNCHANGED call
    /\ RefreshIdle

\* win32.Dispatch("Excel.Application")
Refresh_Dispatch ==
    /\ call.fn = "refresh_main"
    /\ pc = "dispatch"
    /\ \E started \in BOOLEAN :
          IF started
          THEN /\ pc' = "open"
               /\ call' = [call EXCEPT !.result.excel = TRUE]
          ELSE /\ pc' = "finally"
               /\ call' = [call EXCEPT !.result.raised = "com_error"]
    /\ RefreshIdle

\* Workbooks.Open, the sheet activated and the Excel window found
Refresh_Open ==
    /\ call.fn = "refresh_main"
    /\ pc = "open"
    /\ \E outcome \in {"opened", "null", "no_window"} :
          CASE outcome = "opened" ->
                 /\ pc' = "click"
                 /\ call' = [call EXCEPT !.result.workbook = TRUE]
            [] outcome = "null" ->
                 /\ pc' = "finally"
                 /\ call' = [call EXCEPT !.result.raised = "RuntimeError"]
            [] outcome = "no_window" ->
                 /\ pc' = "finally"
                 /\ call' = [call EXCEPT !.result.workbook = TRUE,
                                         !.result.raised = "RuntimeError"]
    /\ RefreshIdle

\* one of the attempts to click Refresh
Refresh_Click ==
    /\ call.fn = "refresh_main"
    /\ pc = "click"
    /\ call.result.attempts < ClickAttempts
    /\ \E clicked \in BOOLEAN :
          IF clicked
          THEN /\ pc' = "poll"
               /\ call' = [call EXCEPT !.result.attempts = @ + 1]
          ELSE IF call.result.attempts + 1 < ClickAttempts
          THEN /\ pc' = "click"
               /\ call' = [call EXCEPT !.result.attempts = @ + 1]
          ELSE /\ pc' = "finally"
               /\ call' = [call EXCEPT !.result.attempts = @ + 1,
                                       !.result.raised = "RuntimeError"]
    /\ RefreshIdle

\* one turn of the polling loop
Refresh_Poll ==
    /\ call.fn = "refresh_main"
    /\ pc = "poll"
    /\ call.result.clock < call.args.refresh_timeout
    /\ \E dialog_found \in BOOLEAN :
       \E auth_open \in BOOLEAN :
       \E calc_done \in BOOLEAN :
       \E ready \in BOOLEAN :
       \E spent \in 0..1 :
          LET handled == \/ call.result.handled_auth
                         \/ /\ call.result.clock < call.args.dialog_seconds
                            /\ dialog_found
              poll == [auth_open |-> auth_open, calc_done |-> calc_done,
                       ready |-> ready, at |-> call.result.clock + spent]
          IN IF RefreshComplete(poll)
             THEN /\ pc' = "save"
                  /\ call' = [call EXCEPT !.result.handled_auth = handled,
                                          !.result.poll = poll,
                                          !.result.clock = poll.at]
             ELSE /\ pc' = "poll"
                  /\ call' = [call EXCEPT !.result.handled_auth = handled,
                                          !.result.poll = poll,
                                          !.result.clock = poll.at + 1]
    /\ RefreshIdle

\* the else of the polling loop
Refresh_Timeout ==
    /\ call.fn = "refresh_main"
    /\ pc = "poll"
    /\ call.result.clock >= call.args.refresh_timeout
    /\ pc' = "finally"
    /\ call' = [call EXCEPT !.result.raised = "TimeoutError"]
    /\ RefreshIdle

\* workbook.Save()
Refresh_Save ==
    /\ call.fn = "refresh_main"
    /\ pc = "save"
    /\ \E saved \in BOOLEAN :
          IF saved
          THEN call' = [call EXCEPT !.result.events = Append(@, "Save")]
          ELSE call' = [call EXCEPT !.result.raised = "com_error"]
    /\ pc' = "finally"
    /\ RefreshIdle

\* finally: workbook.Close(SaveChanges=True); when it raises, Quit is not reached
Refresh_Close ==
    /\ call.fn = "refresh_main"
    /\ pc = "finally"
    /\ IF call.result.workbook
       THEN \E closed \in BOOLEAN :
               IF closed
               THEN /\ pc' = "quit"
                    /\ call' = [call EXCEPT
                          !.result.events = Append(@, "Close(SaveChanges=True)")]
               ELSE /\ pc' = "exit"
                    /\ call' = [call EXCEPT !.returned = TRUE,
                                            !.result.raised = "com_error"]
       ELSE /\ pc' = "quit"
            /\ UNCHANGED call
    /\ RefreshIdle

\* finally: excel.Quit()
Refresh_Quit ==
    /\ call.fn = "refresh_main"
    /\ pc = "quit"
    /\ pc' = "exit"
    /\ call' = [call EXCEPT
          !.returned = TRUE,
          !.result.events =
              IF call.result.excel THEN Append(@, "Quit") ELSE @]
    /\ RefreshIdle

NextRefresh ==
    \/ Refresh_CheckArgs
    \/ Refresh_Dispatch
    \/ Refresh_Open
    \/ Refresh_Click
    \/ Refresh_Poll
    \/ Refresh_Timeout
    \/ Refresh_Save
    \/ Refresh_Close
    \/ Refresh_Quit

SpecRefresh == InitRefresh /\ [][NextRefresh]_vars

----------------------------------------------------------------------------
(* Claims about build_raw_data and the dashboards, checked under Spec *)

Built == pc \in {"raw", "dashboards"}

\* x is the float num / den
IsFraction(x, num, den) == x.t = "float" /\ x.d > 0 /\ x.n * den = num * x.d

\* the rows of Raw Data a dashboard record was computed from
GroupOf(rec, KeyOf(_)) ==
    {r \in built.raw : r.Units = rec.Units /\ KeyOf(r) = [f \in DOMAIN KeyOf(r) |-> rec[f]]}

TotalsGroupOf(rec) ==
    IF rec.Scope = "Total" THEN UnitDf(built.raw, rec.Units) ELSE GroupOf(rec, BuKey)

C1_Scenario(actuals) ==
    /\ marketing_df = <<MarketingRows[1]>>
    /\ catalog_df = load_product_catalog(<<CatalogRows[1]>>)
    /\ stats_df = <<>>
    /\ actuals_df = actuals
    /\ report_month = Mar2024

C1_RawIs(act, stats_err, mkt_err) ==
    /\ Cardinality(built.raw) = 1
    /\ \A r \in built.raw :
          /\ r.Units = S_quantity
          /\ r.Marketing_Fcast = Num(100)
          /\ r.Stats_Model_Fcast = Num(0)
          /\ r.Actuals = Num(act)
          /\ r.Marketing_Abs_Error = Num(mkt_err)
          /\ r.Stats_Abs_Error = Num(stats_err)

C1_Each(table, Ok(_)) == table # {} /\ \A rec \in table : Ok(rec)

\* every dashboard of the scenario shows these metric values and this winner
C1_DashboardsAre(AccOk(_), WapeOk(_), winner) ==
    LET Ok(rec) == IF rec.Metric = "WAPE" THEN WapeOk(rec) ELSE AccOk(rec)
        Wins(rec) == rec.Metric = "WAPE"
                     \/ winner_label(rec.Stats_Model, rec.Marketing,
                                     "closest_to_one") = winner
    IN /\ C1_Each(dashboards.totals, Ok)
       /\ C1_Each(dashboards.totals, Wins)
       /\ C1_Each(dashboards.prod_fam, Ok)
       /\ C1_Each(dashboards.prod_fam_wape, Ok)
       /\ C1_Each(dashboards.marketing_mgr, Ok)
       /\ C1_Each(dashboards.product, Ok)
       /\ \E rec \in dashboards.totals : rec.Scope = "Total" /\ rec.Metric = "WAPE"
       /\ \E rec \in dashboards.totals : rec.Scope = "Total" /\ rec.Metric # "WAPE"

C1_AccAsClaimed(rec) ==
    IsFraction(rec.Marketing, 100, 120) /\ IsFraction(rec.Stats_Model, 0, 120)
C1_WapeAsClaimed(rec) ==
    IsFraction(rec.Marketing, 20, 120) /\ IsFraction(rec.Stats_Model, 1, 1)
C1_NoMetric(rec) == rec.Marketing = None /\ rec.Stats_Model = None

\* C1 as stated: the end-to-end scenario with the actuals row keyed by the
\* SKU WIDGET-A gives one record with Actuals 120, errors 20 and 120,
\* Accuracy-Ratio 100/120 and 0, WAPE 20/120 and 1, winner Marketing.
C1_AsStated ==
    (C1_Scenario(<<ActualsRows[1]>>) /\ pc = "dashboards") =>
        /\ C1_RawIs(120, 120, 20)
        /\ C1_DashboardsAre(C1_AccAsClaimed, C1_WapeAsClaimed, "Marketing")

\* C1 amended: actuals are joined on the catalog group key, not on the SKU.
\* With the actuals row keyed FAM1 the scenario gives the record and the
\* metrics of the claim; with the actuals row keyed WIDGET-A it gives
\* Actuals 0, Marketing Abs Error 100, Stats Abs Error 0, no metric, no winner.
C1_EndToEnd ==
    /\ (C1_Scenario(<<ActualsRows[2]>>) /\ Built) => C1_RawIs(120, 120, 20)
    /\ (C1_Scenario(<<ActualsRows[2]>>) /\ pc = "dashboards") =>
          C1_DashboardsAre(C1_AccAsClaimed, C1_WapeAsClaimed, "Marketing")
    /\ (C1_Scenario(<<ActualsRows[1]>>) /\ Built) => C1_RawIs(0, 0, 100)
    /\ (C1_Scenario(<<ActualsRows[1]>>) /\ pc = "dashboards") =>
          C1_DashboardsAre(C1_NoMetric, C1_NoMetric, "")

C1_Witness ==
    /\ C1_Scenario(<<ActualsRows[2]>>)
    /\ pc = "dashboards"
    /\ \E rec \in dashboards.totals : rec.Marketing # None

C2_Value(x, num, actuals_sum) ==
    /\ actuals_sum > 0 => IsFraction(x, num, actuals_sum)
    /\ actuals_sum = 0 => x = None

C2_RecordOk(rec, group) ==
    LET A == SumField(group, "Actuals")
    IN /\ group # {}
       /\ rec.Metric \in {"Midmark Fcast Acc.", "WAPE"}
       /\ rec.Metric = "Midmark Fcast Acc." =>
             /\ C2_Value(rec.Stats_Model, SumField(group, "Stats_Model_Fcast"), A)
             /\ C2_Value(rec.Marketing, SumField(group, "Marketing_Fcast"), A)
       /\ rec.Metric = "WAPE" =>
             /\ C2_Value(rec.Stats_Model, SumField(group, "Stats_Abs_Error"), A)
             /\ C2_Value(rec.Marketing, SumField(group, "Marketing_Abs_Error"), A)

C2_Has(table, r, KeyOf(_), metric) ==
    \E rec \in table :
        /\ rec.Units = r.Units
        /\ rec.Metric = metric
        /\ KeyOf(r) = [f \in DOMAIN KeyOf(r) |-> rec[f]]

\* C2: every record of every dashboard holds F/A (Accuracy-Ratio) or E/A
\* (WAPE) of its group when the group's actuals sum A is positive and null
\* when A = 0; the totals (total and BU scope) and manager dashboards hold
\* both metrics of every group, the product-family dashboards one each and
\* the product dashboard the Accuracy-Ratio.
C2_Metrics ==
    pc = "dashboards" =>
        /\ \A rec \in dashboards.totals : C2_RecordOk(rec, TotalsGroupOf(rec))
        /\ \A rec \in dashboards.prod_fam : C2_RecordOk(rec, GroupOf(rec, ProdFamKey))
        /\ \A rec \in dashboards.prod_fam_wape : C2_RecordOk(rec, GroupOf(rec, ProdFamKey))
        /\ \A rec \in dashboards.marketing_mgr : C2_RecordOk(rec, GroupOf(rec, ManagerKey))
        /\ \A rec \in dashboards.product : C2_RecordOk(rec, GroupOf(rec, ProductKey))
        /\ \A r \in built.raw : r.Units \in UnitsList =>
              /\ \A metric \in {"Midmark Fcast Acc.", "WAPE"} :
                    /\ C2_Has(dashboards.totals, r, BuKey, metric)
                    /\ C2_Has(dashboards.marketing_mgr, r, ManagerKey, metric)
                    /\ \E rec \in dashboards.totals :
                          /\ rec.Scope = "Total"
                          /\ rec.Units = r.Units
                          /\ rec.Metric = metric
              /\ C2_Has(dashboards.prod_fam, r, ProdFamKey, "Midmark Fcast Acc.")
              /\ C2_Has(dashboards.prod_fam_wape, r, ProdFamKey, "WAPE")
              /\ C2_Has(dashboards.product, r, ProductKey, "Midmark Fcast Acc.")

\* one group with positive actuals and a metric, one with forecasts but
\* zero actuals and no metric
C2_Witness ==
    /\ pc = "dashboards"
    /\ \E rec \in dashboards.marketing_mgr :
          /\ SumField(GroupOf(rec, ManagerKey), "Actuals") > 0
          /\ rec.Marketing.t = "float"
    /\ \E rec \in dashboards.marketing_mgr :
          /\ SumField(GroupOf(rec, ManagerKey), "Actuals") = 0
          /\ SumField(GroupOf(rec, ManagerKey), "Marketing_Fcast") > 0
          /\ rec.Marketing = None

\* the rows of the report month, by position in a source table
InMonth(frame, col) ==
    {i \in 1..Len(frame) : SamePeriod(frame[i][col], report_month)}

RECURSIVE IndexSum(_, _, _)
IndexSum(frame, col, I) ==
    IF I = {} THEN 0
    ELSE LET i == CHOOSE i \in I : TRUE
         IN SumValue(frame[i][col]) + IndexSum(frame, col, I \ {i})

C3_Key(r) ==
    [_product_key |-> normalize_key(r.product_id), _bu_key |-> normalize_key(r.bu_id)]

C3_Blend(k) ==
    {i \in InMonth(stats_df, "forecast_month") :
        C3_Key(stats_df[i]) = k /\ normalize_key(stats_df[i].model_type) = S_BLEND}

C3_Recommended(k) ==
    {i \in InMonth(stats_df, "forecast_month") :
        C3_Key(stats_df[i]) = k /\ stats_df[i].recommended_model = TRUE}

C3_Values(k) == {r.value : r \in {x \in built.stats_rollup : RollupKey(x) = k}}

\* C3: for every normalized (product, BU) key of the report month the stats
\* rollup holds the sum of the key's BLEND rows if it has a BLEND row, else
\* the sum of its recommended_model rows if it has one, else nothing; the sum
\* is never blend-sum plus recommended-sum.
C3_Coalesce ==
    Built =>
        \A k \in {C3_Key(stats_df[i]) : i \in InMonth(stats_df, "forecast_month")} :
            IF C3_Blend(k) # {}
            THEN C3_Values(k) = {Num(IndexSum(stats_df, "forecast_value", C3_Blend(k)))}
            ELSE IF C3_Recommended(k) # {}
            THEN C3_Values(k) =
                    {Num(IndexSum(stats_df, "forecast_value", C3_Recommended(k)))}
            ELSE C3_Values(k) = {}

\* a key with BLEND rows and recommended rows, the two sums positive
C3_Witness ==
    /\ Built
    /\ \E r \in built.stats_rollup :
          /\ C3_Blend(RollupKey(r)) \ C3_Recommended(RollupKey(r)) # {}
          /\ IndexSum(stats_df, "forecast_value", C3_Blend(RollupKey(r))) > 0
          /\ IndexSum(stats_df, "forecast_value", C3_Recommended(RollupKey(r))) > 0
          /\ \E a \in built.agg : a.Stats_Model_Fcast = r.value /\ RollupKey(a) = RollupKey(r)

C4_Casework(r, loc) ==
    /\ normalize_key(r.BU) = S_D200
    /\ normalize_key(r.Product) = S_TOTAL_CASEWORK
    /\ normalize_key(r.Location) = loc

C4_InMask(r) == C4_Casework(r, S_LOC1020) \/ C4_Casework(r, S_LOC1080)

C4_Family(r) ==
    /\ C4_Casework(r, S_LOC1020) => normalize_key(r.group_key) = S_ARTISAN_CASEWORK
    /\ C4_Casework(r, S_LOC1080) => normalize_key(r.group_key) = S_SYNTHESIS_CASEWORK

\* the inner join of the filtered marketing rows and the expanded catalog
C4_Joined ==
    MarketingFcast(InnerMerge(
        MarketingKeys(FilterMarketing(marketing_df, report_month)),
        CatalogKeys(ExpandCatalog(catalog_df))))

\* C4: every joined row kept for a D200 / TOTAL CASEWORK marketing row of
\* location LOC1020 (LOC1080) has a group_key that normalizes to ARTISAN
\* CASEWORK (SYNTHESIS CASEWORK); the kept rows of the mask are the joined
\* rows of that family, and the joined rows outside the mask are all kept,
\* unchanged and in order.
C4_CaseworkOverride ==
    Built =>
        /\ \A i \in 1..Len(built.merged) : C4_Family(built.merged[i])
        /\ SelectSeq(built.merged, C4_InMask)
              = SelectSeq(C4_Joined, LAMBDA r : C4_InMask(r) /\ C4_Family(r))
        /\ SelectSeq(built.merged, LAMBDA r : ~C4_InMask(r))
              = SelectSeq(C4_Joined, LAMBDA r : ~C4_InMask(r))

\* both locations joined to both casework families, and a row outside the mask
C4_Witness ==
    /\ Built
    /\ \E i, j \in 1..Len(built.merged) :
          /\ C4_Casework(built.merged[i], S_LOC1020)
          /\ C4_Casework(built.merged[j], S_LOC1080)
    /\ \E i \in 1..Len(C4_Joined) :
          /\ C4_Casework(C4_Joined[i], S_LOC1020)
          /\ normalize_key(C4_Joined[i].group_key) = S_SYNTHESIS_CASEWORK
    /\ \E i \in 1..Len(C4_Joined) :
          /\ C4_Casework(C4_Joined[i], S_LOC1080)
          /\ normalize_key(C4_Joined[i].group_key) = S_ARTISAN_CASEWORK

InScope(r) ==
    /\ SamePeriod(r.Date, report_month)
    /\ str_upper(astype_str(r.Geography)) = S_AMERICAS

HasCatalogMatch(r) ==
    \E i \in 1..Len(catalog_df) :
        /\ normalize_key(catalog_df[i].business_unit_code) = normalize_key(r.BU)
        /\ \E j \in 1..Len(str_split(astype_str(catalog_df[i].sku_list), "|")) :
              normalize_key(str_split(astype_str(catalog_df[i].sku_list), "|")[j])
                 = normalize_key(r.Product)

SkippedEntry(r) ==
    [BU |-> r.BU, Product |-> r.Product, Date |-> r.Date,
     Reason |-> "Not in product catalog master"]

C6_With(x) ==
    build_raw_data(Append(marketing_df, x), catalog_df, stats_df, actuals_df,
                   report_month)

C8_Key(r) ==
    [_product_key |-> normalize_key(r.Product), _bu_key |-> normalize_key(r.Division)]

C8_NoActuals(r) ==
    ~\E i \in InMonth(actuals_df, "Month") : C8_Key(actuals_df[i]) = C8_Key(r)

C8_NoStats(r) ==
    ~\E i \in InMonth(stats_df, "forecast_month") :
        /\ C3_Key(stats_df[i]) = C8_Key(r)
        /\ \/ normalize_key(stats_df[i].model_type) = S_BLEND
           \/ stats_df[i].recommended_model = TRUE

C8_AllZero(group) == \A r \in group : r.Actuals = Num(0)

C8_Null(table, Group(_)) ==
    \A rec \in table : C8_AllZero(Group(rec)) => C1_NoMetric(rec)

\* C8: a reconciled record with no actuals-rollup row for its normalized
\* (group key, BU) key has Actuals 0 and one with no stats-rollup row has
\* Stats Model Fcast 0; the two absolute errors of every record are numbers;
\* a dashboard group whose records all have Actuals 0 has null
\* Accuracy-Ratio and null WAPE.
C8_ZeroFill ==
    /\ Built =>
          \A r \in built.raw :
              /\ C8_NoActuals(r) => r.Actuals = Num(0)
              /\ C8_NoStats(r) => r.Stats_Model_Fcast = Num(0)
              /\ r.Stats_Abs_Error.t = "num"
              /\ r.Marketing_Abs_Error.t = "num"
              /\ r.Stats_Abs_Error.v = Abs(r.Actuals.v - r.Stats_Model_Fcast.v)
              /\ r.Marketing_Abs_Error.v = Abs(r.Actuals.v - r.Marketing_Fcast.v)
    /\ pc = "dashboards" =>
          /\ C8_Null(dashboards.totals, TotalsGroupOf)
          /\ C8_Null(dashboards.prod_fam, LAMBDA rec : GroupOf(rec, ProdFamKey))
          /\ C8_Null(dashboards.prod_fam_wape, LAMBDA rec : GroupOf(rec, ProdFamKey))
          /\ C8_Null(dashboards.marketing_mgr, LAMBDA rec : GroupOf(rec, ManagerKey))
          /\ C8_Null(dashboards.product, LAMBDA rec : GroupOf(rec, ProductKey))

\* a record matched by neither rollup, with a forecast, and its null metrics
C8_Witness ==
    /\ pc = "dashboards"
    /\ \E r \in built.raw :
          /\ C8_NoActuals(r)
          /\ C8_NoStats(r)
          /\ r.Marketing_Fcast.v > 0
          /\ r.Marketing_Abs_Error = r.Marketing_Fcast
          /\ \E rec \in dashboards.product :
                r \in GroupOf(rec, ProductKey) /\ rec.Marketing = None

\* the dashboard records of the group a trend row was computed from
DashboardRecordsOf(t) ==
    LET same(rec, fields) ==
            /\ rec.Metric = "Midmark Fcast Acc."
            /\ rec.Units = t.units
            /\ \A f \in fields : astype_str(rec[f[1]]) = t[f[2]]
        bu == {<<"BU_Code", "bu_code">>, <<"BU_Name", "bu_name">>}
    IN CASE t.view_level = "total" ->
              {rec \in dashboards.totals : rec.Scope = "Total" /\ same(rec, {})}
         [] t.view_level = "bu" ->
              {rec \in dashboards.totals : rec.Scope = "BU" /\ same(rec, bu)}
         [] t.view_level = "prod_fam" ->
              {rec \in dashboards.prod_fam :
                  same(rec, bu \cup {<<"Prod_Fam", "prod_fam">>})}
         [] OTHER ->
              {rec \in dashboards.product :
                  same(rec, bu \cup {<<"Product", "product">>,
                                     <<"Marketing_Manager", "marketing_manager">>})}

\* C14: for the reconciled records of the month, every trend row's
\* metric_value is forecast_sum / actuals_sum, null exactly when actuals_sum
\* is 0, and is the Accuracy-Ratio the totals, product-family or product
\* dashboard gives the same group, unit type and side.
C14_TrendRatioIsMonthly ==
    pc = "dashboards" =>
        LET rows == build_month_trend_rows(built.raw, report_month)
        IN \A i \in 1..Len(rows) :
              /\ rows[i].metric_value
                    = safe_ratio(rows[i].forecast_sum, rows[i].actuals_sum)
              /\ (rows[i].metric_value = None) <=> (rows[i].actuals_sum = 0)
              /\ \E rec \in DashboardRecordsOf(rows[i]) :
                    rows[i].metric_value =
                        IF rows[i].model_side = "stats_model"
                        THEN rec.Stats_Model ELSE rec.Marketing

----------------------------------------------------------------------------
(* Claims about the monthly run, checked under SpecMonthly *)

\* the catalog entries a marketing row's normalized (product, BU) key maps to
CatalogEntries(r) ==
    {i \in 1..Len(catalog_df) :
        /\ normalize_key(catalog_df[i].business_unit_code) = normalize_key(r.BU)
        /\ \E j \in 1..Len(str_split(astype_str(catalog_df[i].sku_list), "|")) :
              normalize_key(str_split(astype_str(catalog_df[i].sku_list), "|")[j])
                 = normalize_key(r.Product)}

Ambiguous(r) ==
    /\ InScope(r)
    /\ Cardinality(CatalogEntries(r)) > 1
    /\ ~C4_InMask(r)

InOutput(r) ==
    \E i \in 1..Len(built.marketing_detail) :
        /\ built.marketing_detail[i].BU = r.BU
        /\ built.marketing_detail[i].Product = r.Product
        /\ built.marketing_detail[i].Date = r.Date

InSkipped(r) == \E i \in 1..Len(built.skipped) : built.skipped[i] = SkippedEntry(r)

\* C7: when the report is built, a marketing row of the report month and
\* AMERICAS geography whose normalized (SKU, BU) key maps to more than one
\* catalog entry, outside the casework override, is not in the reconciled
\* output and is in the skipped list or some data-quality check failed.
C7_AmbiguitySurfaced ==
    pc \in {"compare", "done"} =>
        \A i \in 1..Len(marketing_df) :
            Ambiguous(marketing_df[i]) =>
                /\ ~InOutput(marketing_df[i])
                /\ InSkipped(marketing_df[i]) \/ dq_results.checks_failed > 0

\* C9: in every mode the DQ log is the first artifact written and is written
\* when the gate decides; a run in fail mode with a failed critical check
\* ends at the gate, the DQ log its only artifact; the report, validation
\* and comparison workbooks are written only past the gate, in that order.
C9_AbortBeforeReports ==
    /\ pc \in {"dq_gate", "aborted", "build_report", "report_raised", "compare",
               "compare_raised", "done"} => files # <<>> /\ files[1] = "dq_log"
    /\ pc \in {"dq_gate", "aborted", "build_report", "report_raised"} =>
          files = <<"dq_log">>
    /\ pc \in {"main", "run_dq_checks", "load_raised"} => files = <<>>
    /\ (args.dq_mode = "fail" /\ dq_results.critical_failed > 0) =>
          pc \in {"dq_gate", "aborted"}
    /\ pc \in {"compare", "compare_raised", "done"} =>
          /\ ~(args.dq_mode = "fail" /\ dq_results.critical_failed > 0)
          /\ files \in {<<"dq_log", "report", "validation">>,
                        <<"dq_log", "report", "validation", "comparison">>}

\* a run in fail mode aborted on a failed critical check, after the DQ log
C9_Witness ==
    /\ pc = "aborted"
    /\ args.dq_mode = "fail"
    /\ args.compare_baseline = "legacy"
    /\ args.data_source = "db"
    /\ dq_results.critical_failed > 0
    /\ marketing_df # <<>>
    /\ files = <<"dq_log">>

----------------------------------------------------------------------------
(* Claims about the trend run, checked under SpecTrend *)

\* C10: a trend run in fail mode with a failed critical check ends aborted
\* and the trend workbook is not among the artifacts written.
C10_AbortBeforeWorkbook ==
    (args.dq_mode = "fail" /\ dq_results.critical_failed > 0) =>
        /\ pc \in {"write_outputs", "dq_gate", "aborted"}
        /\ pc = "aborted" => \A i \in 1..Len(files) : files[i] # "trend_workbook"

----------------------------------------------------------------------------
(* Claims about the data-quality gate of both entry points, checked under
   SpecEntryPoints *)

FailedChecks(severity) ==
    {i \in 1..Len(dq_results.checks) :
        ~dq_results.checks[i].passed /\ dq_results.checks[i].severity = severity}

\* the run went on past the gate
GatePassed ==
    IF args.window_months = 0
    THEN pc \in {"build_report", "report_raised", "compare", "compare_raised", "done"}
    ELSE pc = "done"

\* C11: at the gate of the monthly and of the trend run, the abort is possible
\* exactly when the mode is fail and some check of severity critical failed,
\* and going on is possible exactly otherwise; so an aborted run is in fail
\* mode with a failed critical check, and a run in mode off or warn, or whose
\* failed checks are all warnings, goes on past the gate.
C11_GateIff ==
    LET blocking == args.dq_mode = "fail" /\ FailedChecks("critical") # {}
    IN /\ pc = "aborted" => blocking
       /\ GatePassed => ~blocking
       /\ pc = "dq_gate" /\ args.window_months = 0 =>
             /\ (ENABLED Main_DqAbort) <=> blocking
             /\ (ENABLED Main_DqPass) <=> ~blocking
       /\ pc = "dq_gate" /\ args.window_months > 0 =>
             /\ (ENABLED Trend_DqAbort) <=> blocking
             /\ (ENABLED Trend_DqPass) <=> ~blocking

\* a monthly run in fail mode went on past the gate with failed warnings only
C11_Witness ==
    /\ args.window_months = 0
    /\ pc = "done"
    /\ args.dq_mode = "fail"
    /\ FailedChecks("warning") # {}
    /\ FailedChecks("critical") = {}

----------------------------------------------------------------------------
(* Claims about build_views, checked under SpecViews *)

ViewsBuilt == pc = "run_dq_checks"

\* the product-grain rows of the trend frame
ProductRows ==
    {trend.trend_df[i] : i \in {j \in 1..Len(trend.trend_df) :
                                    trend.trend_df[j].view_level = "product"}}

AnchorRows == {r \in ProductRows : r.month_start = report_month}

\* the anchor-month entries ranked before e: more actuals, or as much and a
\* lesser product key
RankedBefore(e) ==
    {[product |-> r.product, actuals_sum |-> r.actuals_sum] :
        r \in {x \in AnchorRows :
                 /\ x.units = e.units
                 /\ \/ x.actuals_sum > e.actuals_sum
                    \/ /\ x.actuals_sum = e.actuals_sum
                       /\ TextLess(x.product, e.product)}}

\* the product has an anchor-month row of rank top_n_products or better
InAnchorTop(units, product) ==
    \E e \in AnchorRows :
        /\ e.units = units
        /\ e.product = product
        /\ Cardinality(RankedBefore(e)) < args.top_n_products

\* the product-grain output has a line of the product for the month
InProductOutput(month, units, product) ==
    \E w \in trend.views.product_top :
        w.month_start = month /\ w.units = units /\ w.product = product

\* C12: when the views are built, a product inside the anchor month's top-N
\* is in the product-grain output of every month in which it has trend rows,
\* and a product outside it is in the output of no month.
C12_TopNWindow ==
    ViewsBuilt =>
        \A r \in ProductRows :
            InProductOutput(r.month_start, r.units, r.product)
                <=> InAnchorTop(r.units, r.product)

\* the products build_views keeps for a unit type
KeptProducts(units) ==
    {k.product :
        k \in {x \in TopKeys(SelectSeq(trend.trend_df,
                                       LAMBDA r : r.view_level = "product"),
                              report_month, args.top_n_products) :
                  x.units = units}}

AnchorProducts(units) == {r.product : r \in {x \in AnchorRows : x.units = units}}

\* the anchor-month actuals volume of a product: that of its largest group
AnchorVolume(units, product) ==
    LET sums == {r.actuals_sum :
                   r \in {x \in AnchorRows : x.units = units /\ x.product = product}}
    IN CHOOSE v \in sums : \A w \in sums : w <= v

Min(a, b) == IF a < b THEN a ELSE b

\* the kept products come before the others: more anchor-month actuals, or
\* as much and a lesser product key
C13_LargestFirst(units) ==
    \A p \in KeptProducts(units) :
    \A q \in AnchorProducts(units) \ KeptProducts(units) :
        \/ AnchorVolume(units, p) > AnchorVolume(units, q)
        \/ /\ AnchorVolume(units, p) = AnchorVolume(units, q)
           /\ TextLess(p, q)

\* C13: when the views are built, for each unit type the kept products are
\* anchor-month products, are the ones of largest anchor-month actuals with
\* ties broken by ascending product key, and number exactly the lesser of N
\* and the number of distinct anchor-month products.
C13_TopNSelection ==
    ViewsBuilt =>
        \A units \in UnitsList :
            /\ KeptProducts(units) \subseteq AnchorProducts(units)
            /\ C13_LargestFirst(units)
            /\ Cardinality(KeptProducts(units)) <= args.top_n_products
            /\ Cardinality(KeptProducts(units))
                  >= Min(args.top_n_products, Cardinality(AnchorProducts(units)))

----------------------------------------------------------------------------
(* Claims about winner_label, checked under SpecWinner *)

IsNumber(x) == x.t = "float"

\* |x - 1| of the number x, as a number
RealDistance(x) == [t |-> "float", n |-> Abs(x.n - x.d), d |-> x.d]

\* C15: in closest-to-one mode, for two numbers, the label is Stats Model
\* when |s - 1| < |m - 1|, Marketing when |s - 1| > |m - 1|, and Tie when the
\* two distances are equal, two different values at the same distance from 1
\* such as 0.9 and 1.1 included.
C15_ClosestToOne ==
    (/\ Returned("winner_label")
     /\ call.args[3] = "closest_to_one"
     /\ IsNumber(call.args[1])
     /\ IsNumber(call.args[2]))
      => LET s == RealDistance(call.args[1])
             m == RealDistance(call.args[2])
         IN call.result.winner =
               IF Less(s, m) THEN "Stats Model"
               ELSE IF Less(m, s) THEN "Marketing"
               ELSE "Tie"

\* C16: in every mode winner_label returns the empty label when either value
\* is None, NaN or not convertible to a number; Tie is returned only for two
\* numbers, so the empty label and Tie are never confused; both have winner
\* rank 2 in the dashboard sort.
C16_MissingSide ==
    Returned("winner_label")
      => LET missing == ~IsNumber(call.args[1]) \/ ~IsNumber(call.args[2])
             winner == call.result.winner
         IN /\ missing => winner = ""
            /\ winner = "Tie" => ~missing
            /\ winner \in {"", "Tie"} => call.result.winner_rank = 2
            /\ winner \in {"Stats Model", "Marketing"}
                  => call.result.winner_rank < 2

C16_Witness ==
    /\ Returned("winner_label")
    /\ call.args[3] = "lower"
    /\ call.args[1] = NaNFloat
    /\ IsNumber(call.args[2])
    /\ call.result = [winner |-> "", winner_rank |-> 2]

----------------------------------------------------------------------------
(* Claims about normalize_key, checked under SpecNormalize *)

\* b is a with the case of one letter changed, or with one more blank at
\* either end
OneEdit(a, b) ==
    \/ b = <<" ">> \o a
    \/ b = a \o <<" ">>
    \/ /\ Len(a) = Len(b)
       /\ \E i \in 1..Len(a) :
             /\ b[i] # a[i]
             /\ upper_char(b[i]) = upper_char(a[i])
             /\ \A j \in 1..Len(a) : j # i => b[j] = a[j]

IsText(k) == \A i \in 1..Len(k) : k[i] \in KeyChars \cup {"N", "O", "E", "B"}

\* C17: normalize_key returns a text for every key (it never raises);
\* normalizing a normalized key changes nothing; two keys that differ only by
\* letter case or blanks at the ends have the same normalized key; and two
\* null keys have the same normalized key, one placeholder for every null.
C17_NormalizeKey ==
    /\ Returned("normalize_key")
          => /\ \A i \in 1..2 : IsText(call.result[i])
             /\ (/\ call.args[1] \in KeyTexts
                 /\ call.args[2] \in KeyTexts
                 /\ OneEdit(call.args[1], call.args[2]))
                   => call.result[1] = call.result[2]
             /\ (IsNullText(call.args[1]) /\ IsNullText(call.args[2]))
                   => call.result[1] = call.result[2]
    /\ pc = "renormalized" => call.result = call.args

----------------------------------------------------------------------------
(* Claims about the expansion of the catalog, checked under SpecExpand *)

Pipes(s) == {i \in 1..Len(s) : s[i] = "|"}

\* the position of the k-th pipe of s; the ends of s for k = 0 and for one
\* more than the number of pipes
PipeAt(s, k) ==
    IF k = 0 THEN 0
    ELSE IF k > Cardinality(Pipes(s)) THEN Len(s) + 1
    ELSE CHOOSE p \in Pipes(s) : Cardinality({q \in Pipes(s) : q < p}) = k - 1

\* the i-th of the tokens the pipes of s separate
Token(s, i) == SubSeq(s, PipeAt(s, i - 1) + 1, PipeAt(s, i) - 1)

NonBlanks(t) == {i \in 1..Len(t) : t[i] # " "}

First(S) == CHOOSE i \in S : \A j \in S : i <= j
Last(S) == CHOOSE i \in S : \A j \in S : j <= i

\* t without the blanks at its ends
Trimmed(t) ==
    IF NonBlanks(t) = {} THEN <<>>
    ELSE SubSeq(t, First(NonBlanks(t)), Last(NonBlanks(t)))

TokenCount(s) == Cardinality(Pipes(s)) + 1

HasTokens(entry) ==
    /\ ~IsNullText(entry.sku_list)
    /\ \A i \in 1..TokenCount(entry.sku_list) : Token(entry.sku_list, i) # <<>>

\* the rows an entry of N tokens is to expand to
TokenRows(entry) ==
    [i \in 1..TokenCount(entry.sku_list) |->
        [entry EXCEPT !.sku_list = Trimmed(Token(entry.sku_list, i))]]

\* the columns of the catalog, without the join keys
CatalogColumns(r) == [c \in DOMAIN CatalogRows[1] |-> r[c]]

ExpandedRows == [i \in 1..Len(call.result) |-> CatalogColumns(call.result[i])]

\* C18: a catalog entry whose sku_list holds N non-empty tokens separated by
\* pipes expands to exactly N rows, in the order of the tokens, the i-th with
\* the trimmed i-th token as its code and every other attribute of the entry;
\* an entry of one token and no pipe expands to exactly one row.
C18_ExpansionRowCount ==
    (/\ Returned("expand_catalog")
     /\ \A i \in 1..Len(call.args[1]) : HasTokens(call.args[1][i]))
      => ExpandedRows =
            Flatten([i \in 1..Len(call.args[1]) |-> TokenRows(call.args[1][i])])

C18_Witness ==
    /\ Returned("expand_catalog")
    /\ Len(call.args[1]) = 1
    /\ call.args[1][1].sku_list = <<"A", " ", "|", "b">>
    /\ Len(call.result) = 2
    /\ call.result[1].sku_list = <<"A">>
    /\ call.result[2].sku_list = <<"b">>

\* product codes of marketing rows that are not empty
ProductCodes ==
    {p \in KeyTexts : NonBlanks(p) # {}} \cup {<<"N","A","N">>, S_WIDGET_A}

\* C19: a catalog entry whose sku_list is empty or null expands to exactly
\* one row whose code is the empty string, and the join key of that row is
\* the key of no marketing row with a product code that is not empty.
C19_MissingList ==
    (/\ Returned("expand_catalog")
     /\ Len(call.args[1]) = 1
     /\ call.args[1][1].sku_list \in {<<>>, MissingNaN, MissingNone})
      => /\ Len(call.result) = 1
         /\ call.result[1].sku_list = <<>>
         /\ \A p \in ProductCodes :
               normalize_key(p) # call.result[1]._product_key

----------------------------------------------------------------------------
(* Claims about the paths into build_raw_data, checked under SpecPaths *)

\* the reconciled records of the legacy report from the same rows
LegacyRaw(tables) ==
    PathBuilt([source |-> "legacy", into |-> "report"], tables, report_month).built.raw

HasDivision(catalog) ==
    \E i \in 1..Len(catalog) : catalog[i].business_unit_code = S_Division

\* without an entry of BU code Division every path gives the records of the
\* legacy report
PathsAgreeWithoutDivision ==
    (/\ Returned("build_raw_data")
     /\ ~call.result.raised
     /\ ~HasDivision(call.args[2].catalog))
      => call.result.raw = LegacyRaw(call.args[2])

\* C20: on every path into build_raw_data (the report from legacy, copy2026
\* and db, the comparison build, the trend pipeline) a catalog entry whose
\* business_unit_code is Division is joined as BU D200: no reconciled record
\* carries the BU code Division, and the same rows give the records of the
\* legacy report whatever the path.
C20_DivisionOnEveryPath ==
    (Returned("build_raw_data") /\ ~call.result.raised)
      => /\ \A r \in call.result.raw : r.Division # S_Division
         /\ call.result.raw = LegacyRaw(call.args[2])

----------------------------------------------------------------------------
(* Claims about the 2026 Data sheet, checked under SpecCopy2026 *)

\* the calendar months of the dates of a frame
MonthsOf(frame) == {frame[i].Date.m : i \in 1..Len(frame)}

\* C21: validate_marketing_copy_2026 either raises or returns the months
\* 1, 2, ..., 12 in ascending order; it raises whenever the parsed frame does
\* not hold exactly 12 different calendar months; and when it raises,
\* load_frames has read no catalog, stats or actuals table.
C21_ValidateTwelveMonths ==
    (Returned("load_frames") /\ call.result.raised # "parse")
      => /\ call.result.raised = "validate"
               <=> Cardinality(MonthsOf(call.result.frame)) # 12
         /\ call.result.raised = ""
               => call.result.months = [m \in 1..12 |-> m]
         /\ call.result.raised = "validate"
               => /\ call.result.months = <<>>
                  /\ \A i \in 1..Len(call.result.read) :
                        call.result.read[i] \notin {"catalog", "stats", "actuals"}

C21_Witness ==
    /\ Returned("load_frames")
    /\ call.result.raised = "validate"
    /\ Cardinality(MonthsOf(call.result.frame)) = 1
    /\ call.result.read = <<"marketing">>

\* the number of the month a Period cell abbreviates, letter case and blanks
\* at the ends aside; 0 when it abbreviates none
MonthNumber(period) ==
    LET label == IF IsNullText(period) THEN <<>>
                 ELSE [i \in 1..Len(Trimmed(period)) |->
                          upper_char(Trimmed(period)[i])]
        named == {m \in 1..12 : MonthNames[m] = label}
    IN IF named = {} THEN 0 ELSE CHOOSE m \in named : TRUE

\* 2000 + NN of the first FYNN a fiscal-year label holds, 2026 when it holds
\* none
LabelYear(fy) ==
    LET text == IF IsNullText(fy) THEN <<>> ELSE fy
        at == {i \in 1..Len(text) :
                  /\ i + 3 <= Len(text)
                  /\ upper_char(text[i]) = "F"
                  /\ upper_char(text[i + 1]) = "Y"
                  /\ text[i + 2] \in {"0","1","2","3","4","5","6","7","8","9"}
                  /\ text[i + 3] \in {"0","1","2","3","4","5","6","7","8","9"}}
    IN IF at = {} THEN 2026
       ELSE 2000 + 10 * DigitValue(text[First(at) + 2])
                 + DigitValue(text[First(at) + 3])

\* the rows of the sheet at or after the start row whose Period is a month
MonthLines(raw, start_row) ==
    {i \in start_row..Len(raw) : MonthNumber(raw[i].Period) # 0}

\* C22: parse_marketing_copy_2026 raises exactly when the sheet has no row at
\* the start row, has fewer than 11 columns, or has no month row from the
\* start row on; otherwise it returns a table that is not empty, with the
\* columns Date, Forecast (Dollars) and Forecast (Quantity), whose rows are
\* the month rows at or after the start row, in their order, each dated day 1
\* of the month of its Period in the year 2000 + NN of its label FYNN, 2026
\* when the label holds no FYNN.
C22_ParseCopy2026 ==
    Returned("load_frames")
      => LET raw == call.args[1]
             lines == Sorted(MonthLines(raw, call.args[3]))
             frame == call.result.frame
         IN /\ call.result.raised = "parse"
                  <=> \/ Len(raw) < call.args[3]
                      \/ call.args[2] < 11
                      \/ lines = <<>>
            /\ call.result.raised # "parse"
                  => /\ frame # <<>>
                     /\ Len(frame) = Len(lines)
                     /\ \A k \in 1..Len(frame) :
                           /\ {"Date", "Forecast_Dollars", "Forecast_Quantity"}
                                 \subseteq DOMAIN frame[k]
                           /\ frame[k].Date =
                                 Timestamp(LabelYear(raw[lines[k]].fiscal_year),
                                           MonthNumber(raw[lines[k]].Period), 1)
                           /\ frame[k].Product = Trimmed(raw[lines[k]].Product)

C22_Witness ==
    /\ Returned("load_frames")
    /\ call.args[3] = 2
    /\ call.result.raised # "parse"
    /\ MonthNumber(call.args[1][1].Period) # 0
    /\ \E k \in 1..Len(call.result.frame) :
          call.result.frame[k].Date = Timestamp(2025, 1, 1)

----------------------------------------------------------------------------
(* Further claims about build_raw_data, checked under Spec *)

\* the feature mode of a catalog entry reads quantity, letter case and
\* blanks at the ends aside
IsQuantityMode(mode) ==
    /\ ~IsNullText(mode)
    /\ [i \in 1..Len(Trimmed(mode)) |-> lower_char(Trimmed(mode)[i])] = S_quantity

\* a cell as a number, 0 when it is null or holds no number
NumberOrZero(c) == IF c.t = "num" THEN c.v ELSE 0

\* the value of a joined row that counts as its marketing forecast
SelectedValue(r) ==
    IF IsQuantityMode(r.salesforce_feature_mode)
    THEN NumberOrZero(r.Forecast_Quantity)
    ELSE NumberOrZero(r.Forecast_Dollars)

SameText(a, b) == a = b \/ (IsNullText(a) /\ IsNullText(b))

\* the joined row r belongs to the group of the reconciled record a
InGroup(r, a) ==
    /\ SameText(r.group_key, a.group_key)
    /\ SameText(r.business_unit_code, a.business_unit_code)
    /\ SameText(r.business_unit_name, a.business_unit_name)
    /\ SameText(r.product_family, a.product_family)
    /\ SameText(r.marketing_manager, a.marketing_manager)
    /\ IsQuantityMode(r.salesforce_feature_mode) <=> a.Units = S_quantity
    /\ r.Units = a.Units

RECURSIVE SumSelected(_, _)
SumSelected(rows, a) ==
    IF rows = <<>> THEN 0
    ELSE (IF InGroup(rows[1], a) THEN SelectedValue(rows[1]) ELSE 0)
            + SumSelected(Tail(rows), a)

\* C23: the Marketing Fcast of every joined row is its Forecast (Quantity)
\* when the feature mode of its catalog entry, trimmed and lower-cased, is
\* quantity, and its Forecast (Dollars) otherwise, a null or non-numeric value
\* counting as 0; and the Marketing Fcast of a reconciled record is the sum of
\* these values over the joined rows of its group.
C23_MarketingValue ==
    Built
      => /\ \A i \in 1..Len(built.merged) :
               built.merged[i].Marketing_Fcast
                  = Num(SelectedValue(built.merged[i]))
         /\ \A a \in built.agg :
               a.Marketing_Fcast = Num(SumSelected(built.merged, a))
         /\ \A i \in 1..Len(built.merged) :
               \E a \in built.agg : InGroup(built.merged[i], a)

C23_Witness ==
    /\ Built
    /\ \E i \in 1..Len(built.merged) :
          /\ built.merged[i].salesforce_feature_mode = S_Quantity
          /\ built.merged[i].Forecast_Quantity = TextCell
          /\ built.merged[i].Marketing_Fcast = Num(0)
    /\ \E i \in 1..Len(built.merged) :
          /\ built.merged[i].salesforce_feature_mode = S_Dollars_pad
          /\ built.merged[i].Marketing_Fcast = Num(50)
    /\ \E a \in built.agg :
          Cardinality({i \in 1..Len(built.merged) : InGroup(built.merged[i], a)}) > 1

MarketingColumns(r) == [c \in DOMAIN MarketingRows[1] |-> r[c]]

InMarketingDetail(r) ==
    \E i \in 1..Len(built.merged) : MarketingColumns(built.merged[i]) = r

ListedAsSkipped(r) ==
    \E i \in 1..Len(built.skipped) :
       /\ built.skipped[i].BU = r.BU
       /\ built.skipped[i].Product = r.Product
       /\ built.skipped[i].Date = r.Date

\* C24: after build_raw_data every marketing row of the report month and the
\* AMERICAS geography is in the joined marketing detail or in the skipped
\* records, the casework rows the location override removes included.
C24_RowsAccountedFor ==
    Built
      => \A i \in 1..Len(marketing_df) :
            InScope(marketing_df[i])
               => \/ InMarketingDetail(marketing_df[i])
                  \/ ListedAsSkipped(marketing_df[i])

----------------------------------------------------------------------------
(* Claim about the actuals of the reconciled records, checked under
   SpecPaths *)

\* the actuals rows of the month, as the source holds them
MonthActuals(tables) ==
    SelectSeq(tables.actuals, LAMBDA r : SamePeriod(r.Month, report_month))

RECURSIVE SumActuals(_)
SumActuals(rows) ==
    IF rows = <<>> THEN 0
    ELSE NumberOrZero(rows[1].Actuals) + SumActuals(Tail(rows))

\* the reconciled records a and b have the same normalized (product, BU) key
SameActualsKey(a, b) ==
    /\ normalize_key(a.Product) = normalize_key(b.Product)
    /\ normalize_key(a.Division) = normalize_key(b.Division)

\* C25: no actuals value is counted twice: the actuals of a normalized
\* (product, BU) key are attached to at most one reconciled record, and the
\* sum of Actuals over the reconciled records does not exceed the sum of the
\* actuals of the month, also when catalog entries of one group key and BU
\* differ in unit type, manager, family or letter case.
C25_ActualsCountedOnce ==
    (Returned("build_raw_data") /\ ~call.result.raised)
      => /\ \A a, b \in call.result.raw :
               (SameActualsKey(a, b) /\ a.Actuals # Num(0)) => a = b
         /\ SumField(call.result.raw, "Actuals")
               <= SumActuals(MonthActuals(call.args[2]))

----------------------------------------------------------------------------
(* Claim about the dashboards and the unit type, checked under Spec *)

\* the records of a dashboard table made for the unit type and the key
GroupsOf(table, units, key) ==
    {g \in table :
        /\ g.Metric = "Midmark Fcast Acc." \/ table = dashboards.prod_fam_wape
        /\ g.Units = units
        /\ \A c \in DOMAIN key : g[c] = key[c]}

\* C26: every reconciled record is covered by the dashboards: it is in
\* exactly one Total group of build_totals_dashboard, that of its unit type,
\* and in exactly one group of each other grain, whatever the feature mode of
\* its catalog entry, blank, null or other than quantity and dollars included.
C26_RecordsCovered ==
    pc = "dashboards"
      => \A r \in built.raw :
            /\ Cardinality(GroupsOf(dashboards.totals, r.Units,
                                    [Scope |-> "Total"])) = 1
            /\ Cardinality(GroupsOf(dashboards.totals, r.Units,
                                    [Scope |-> "BU"] @@ BuKey(r))) = 1
            /\ Cardinality(GroupsOf(dashboards.prod_fam, r.Units,
                                    ProdFamKey(r))) = 1
            /\ Cardinality(GroupsOf(dashboards.prod_fam_wape, r.Units,
                                    ProdFamKey(r))) = 1
            /\ Cardinality(GroupsOf(dashboards.marketing_mgr, r.Units,
                                    ManagerKey(r))) = 1
            /\ Cardinality(GroupsOf(dashboards.product, r.Units,
                                    ProductKey(r))) = 1

----------------------------------------------------------------------------
(* Claim about highlight_winner, checked under SpecHighlight *)

\* C27: for every two cell values, None and NaN included, and every mode,
\* highlight_winner fills the Stats Model cell exactly when winner_label
\* returns Stats Model, the Marketing cell exactly when it returns Marketing,
\* and no cell when winner_label returns Tie or the empty label.
C27_HighlightAgrees ==
    Returned("highlight_winner")
      => /\ call.result.filled = "Stats Model"
               <=> call.result.winner = "Stats Model"
         /\ call.result.filled = "Marketing"
               <=> call.result.winner = "Marketing"
         /\ call.result.winner \in {"Tie", ""} => call.result.filled = ""

----------------------------------------------------------------------------
(* Claim about the presence checks of the monthly run, checked under
   SpecMonthly *)

CheckPassed(name) ==
    \E i \in 1..Len(dq_results.checks) :
       dq_results.checks[i].name = name /\ dq_results.checks[i].passed

StatsOfMonth ==
    {i \in 1..Len(stats_df) : SamePeriod(stats_df[i].forecast_month, report_month)}

ActualsOfMonth ==
    {i \in 1..Len(actuals_df) : SamePeriod(actuals_df[i].Month, report_month)}

\* C28: whatever the data source, the checks stats_rows_present_for_month
\* and actuals_rows_present_for_month fail when the stats table, the actuals
\* table, holds no row dated in the report month, so that in fail mode no
\* report is written for a month without stats rows or without actuals rows.
C28_PresentForMonth ==
    /\ dq_results # NoDq
          => /\ StatsOfMonth = {} => ~CheckPassed("stats_rows_present_for_month")
             /\ ActualsOfMonth = {}
                   => ~CheckPassed("actuals_rows_present_for_month")
    /\ (args.dq_mode = "fail" /\ \E i \in 1..Len(files) : files[i] = "report")
          => StatsOfMonth # {} /\ ActualsOfMonth # {}

----------------------------------------------------------------------------
(* Claim about the monthly runbook, checked under SpecRunbook *)

StepsRun == call.result.steps

\* the step was run and exited with code 0
RanWell(step) ==
    \E k \in 1..Len(StepsRun) :
       StepsRun[k].step = step /\ StepsRun[k].returncode = 0

\* C29: the steps that are not skipped run in the order actuals load,
\* marketing load, catalog load, report build; a step starts only after
\* every earlier step that is not skipped exited with code 0; at the first
\* exit code that is not 0 the runbook exits with that code and runs no later
\* step; the comparison file is moved only after a report build that exited
\* with code 0.
C29_RunbookOrder ==
    /\ \A k \in 1..Len(StepsRun) :
          /\ ~call.args.skip[StepsRun[k].step]
          /\ \A j \in 1..(k - 1) :
                /\ StepNumber(StepsRun[j].step) < StepNumber(StepsRun[k].step)
                /\ StepsRun[j].returncode = 0
          /\ \A n \in 1..(StepNumber(StepsRun[k].step) - 1) :
                ~call.args.skip[RunbookSteps[n]] => RanWell(RunbookSteps[n])
    /\ (\E k \in 1..Len(StepsRun) : StepsRun[k].returncode # 0)
          => /\ pc = "exited"
             /\ call.result.exit_code = StepsRun[Len(StepsRun)].returncode
             /\ ~ENABLED NextRunbook
    /\ pc = "exited" => call.result.exit_code # 0
    /\ pc \in {"move_comparison", "done"} => RanWell("report_build")
    /\ call.result.moved => RanWell("report_build")

C29_Witness ==
    /\ pc = "exited"
    /\ call.args.skip["actuals_load"]
    /\ StepsRun = << [step |-> "marketing_load", returncode |-> 0],
                     [step |-> "catalog_load", returncode |-> 2] >>
    /\ call.result.exit_code = 2

----------------------------------------------------------------------------
(* Claim about the Essbase refresh, checked under SpecRefresh *)

RefreshEvents == call.result.events

Happened(event) == \E k \in 1..Len(RefreshEvents) : RefreshEvents[k] = event

\* the workbook was written to disk: Save, or Close asked to save changes
WorkbookSaved == Happened("Save") \/ Happened("Close(SaveChanges=True)")

\* the polling loop was left by its break
RefreshCompleted ==
    /\ call.result.raised # "TimeoutError"
    /\ RefreshComplete(call.result.poll)

\* the Refresh button could not be clicked in the three attempts
ClickFailed ==
    /\ call.result.raised = "RuntimeError"
    /\ call.result.attempts = ClickAttempts
    /\ call.result.poll = NoPoll

\* C30: the workbook is saved only when the refresh completed, that is after
\* a poll in which no login dialog is open, the calculation state is done and
\* Excel is ready, at least 5 seconds after polling began; when the Refresh
\* button cannot be clicked in 3 attempts or the refresh timeout expires, the
\* run raises an error and the workbook is closed without saving; Excel is
\* quit on every exit path.
C30_SaveOnlyWhenRefreshed ==
    /\ WorkbookSaved => RefreshCompleted
    /\ pc = "exit" /\ (ClickFailed \/ call.result.raised = "TimeoutError")
          => ~WorkbookSaved
    /\ pc = "exit" /\ call.result.excel => Happened("Quit")

\* what the code keeps: Save itself is called only after a poll that found
\* the refresh complete, never after a failed click or a timeout
C30_SaveCallAfterCompletePoll ==
    /\ Happened("Save") => RefreshCompleted
    /\ pc = "save" => RefreshComplete(call.result.poll)
    /\ Happened("Save") => call.result.raised \in {"", "com_error"}

\* a timeout after which the workbook was closed with its changes saved
C30_SavedAfterTimeout ==
    /\ pc = "exit"
    /\ call.result.raised = "TimeoutError"
    /\ Happened("Close(SaveChanges=True)")
    /\ Happened("Quit")

====
